---- MODULE Spec2Model ----
(***************************************************************************)
(* A model of the METAR decoder of metarflow: parse_metar                  *)
(* (src/src/services.rs) and the helpers it calls (src/src/utils.rs), and  *)
(* of the request handler that calls it after fetch_metar                  *)
(* (src/src/handlers.rs).                                                  *)
(*                                                                         *)
(* Text is modelled as a sequence of one-character strings, so that the    *)
(* slicing, prefix, suffix and search operations of the code are computed  *)
(* and not assumed.  The formatted fields of the report are TLA+ strings,  *)
(* built by concatenation as format!() builds them.  An Option value is    *)
(* the empty tuple (None) or a one-element tuple (Some).  The report text  *)
(* of the model is ASCII, so a byte offset of the decoder is a character   *)
(* index; the query parameter of the handler is not.                       *)
(***************************************************************************)
EXTENDS Integers, Sequences, FiniteSets, TLC

VARIABLES metar, icao, parts, i, pc, info, cavok_found, cloud_layers,
          remark_parts, temp_c, dew_c, iters,
          params_icao, response, fetched, reply

\* The state of fetch_metar_handler and fetch_metar: the icao query
\* parameter, the HTTP response of the weather service, the Result of
\* fetch_metar and the status of the page the handler answers with.
handler_vars == <<params_icao, response, fetched, reply>>

vars == <<metar, icao, parts, i, pc, info, cavok_found, cloud_layers,
          remark_parts, temp_c, dew_c, iters, handler_vars>>

None == <<>>
Some(x) == <<x>>

(***************************************************************************)
(* Text primitives (the str methods the decoder uses).                     *)
(***************************************************************************)
Digits == {"0", "1", "2", "3", "4", "5", "6", "7", "8", "9"}

Upper == {"A", "B", "C", "D", "E", "F", "G", "H", "I", "J", "K", "L", "M",
          "N", "O", "P", "Q", "R", "S", "T", "U", "V", "W", "X", "Y", "Z"}

Whitespace == {" ", "\t", "\n", "\r"}

Lower == {"a", "b", "c", "d", "e", "f", "g", "h", "i", "j", "k", "l", "m",
          "n", "o", "p", "q", "r", "s", "t", "u", "v", "w", "x", "y", "z"}

is_alphabetic(c) == c \in Upper \cup Lower

DigitValue(c) ==
    CASE c = "0" -> 0 [] c = "1" -> 1 [] c = "2" -> 2 [] c = "3" -> 3
      [] c = "4" -> 4 [] c = "5" -> 5 [] c = "6" -> 6 [] c = "7" -> 7
      [] c = "8" -> 8 [] c = "9" -> 9

\* s[a..b) of the code, with 0-based offsets; the caller checks the range.
Slice(s, a, b) == SubSeq(s, a + 1, b)

\* Whether s[a..b) is a valid range of s (otherwise the slice panics).
SliceOk(s, a, b) == a <= b /\ b <= Len(s)

starts_with(s, p) == Len(p) <= Len(s) /\ SubSeq(s, 1, Len(p)) = p

ends_with(s, p) ==
    Len(p) <= Len(s) /\ SubSeq(s, Len(s) - Len(p) + 1, Len(s)) = p

\* str::contains for a pattern string.
contains(s, p) ==
    \E k \in 1..(Len(s) - Len(p) + 1) : SubSeq(s, k, k + Len(p) - 1) = p

\* str::find for a single character: the 0-based offset of the first one.
find(s, c) ==
    IF \E k \in 1..Len(s) : s[k] = c
    THEN Some((CHOOSE k \in 1..Len(s) :
                  s[k] = c /\ \A j \in 1..(k - 1) : s[j] # c) - 1)
    ELSE None

\* The text as one string (to_string / Display of a str).
RECURSIVE Str(_)
Str(s) == IF s = <<>> THEN "" ELSE s[1] \o Str(Tail(s))

\* Vec<String>::join.
RECURSIVE join(_, _)
join(v, sep) ==
    IF v = <<>> THEN ""
    ELSE IF Len(v) = 1 THEN v[1]
    ELSE v[1] \o sep \o join(Tail(v), sep)

\* str::split_whitespace: the maximal runs of non-whitespace characters.
RECURSIVE SplitFrom(_, _, _)
SplitFrom(s, k, cur) ==
    IF k > Len(s)
    THEN IF cur = <<>> THEN <<>> ELSE <<cur>>
    ELSE IF s[k] \in Whitespace
         THEN IF cur = <<>> THEN SplitFrom(s, k + 1, <<>>)
              ELSE <<cur>> \o SplitFrom(s, k + 1, <<>>)
         ELSE SplitFrom(s, k + 1, Append(cur, s[k]))

split_whitespace(s) == SplitFrom(s, 1, <<>>)

\* str::split(c): the pieces between the occurrences of c (empty ones kept).
RECURSIVE SplitCharFrom(_, _, _, _)
SplitCharFrom(s, c, k, cur) ==
    IF k > Len(s) THEN <<cur>>
    ELSE IF s[k] = c THEN <<cur>> \o SplitCharFrom(s, c, k + 1, <<>>)
    ELSE SplitCharFrom(s, c, k + 1, Append(cur, s[k]))

split(s, c) == SplitCharFrom(s, c, 1, <<>>)

(***************************************************************************)
(* The str methods of the handler.  The query parameter is any text, so    *)
(* its characters keep their UTF-8 width: str::len counts bytes.           *)
(***************************************************************************)
\* char::len_utf8 of the characters of the model.
len_utf8(c) == IF c \in {"é", "É"} THEN 2 ELSE 1

\* str::len: the length in bytes.
RECURSIVE len(_)
len(s) == IF s = <<>> THEN 0 ELSE len_utf8(s[1]) + len(Tail(s))

RECURSIVE trim_start(_)
trim_start(s) ==
    IF s # <<>> /\ s[1] \in Whitespace THEN trim_start(Tail(s)) ELSE s

RECURSIVE trim_end(_)
trim_end(s) ==
    IF s # <<>> /\ s[Len(s)] \in Whitespace
    THEN trim_end(SubSeq(s, 1, Len(s) - 1))
    ELSE s

\* str::trim.
trim(s) == trim_end(trim_start(s))

\* char::to_uppercase of the characters of the model.
to_uppercase_char(c) ==
    CASE c = "a" -> "A" [] c = "b" -> "B" [] c = "c" -> "C" [] c = "d" -> "D"
      [] c = "e" -> "E" [] c = "f" -> "F" [] c = "g" -> "G" [] c = "h" -> "H"
      [] c = "i" -> "I" [] c = "j" -> "J" [] c = "k" -> "K" [] c = "l" -> "L"
      [] c = "m" -> "M" [] c = "n" -> "N" [] c = "o" -> "O" [] c = "p" -> "P"
      [] c = "q" -> "Q" [] c = "r" -> "R" [] c = "s" -> "S" [] c = "t" -> "T"
      [] c = "u" -> "U" [] c = "v" -> "V" [] c = "w" -> "W" [] c = "x" -> "X"
      [] c = "y" -> "Y" [] c = "z" -> "Z" [] c = "é" -> "É"
      [] OTHER -> c

\* str::to_uppercase.
to_uppercase(s) == [k \in 1..Len(s) |-> to_uppercase_char(s[k])]

(***************************************************************************)
(* Number parsing (str::parse).  A result is None (Err) or Some(value).    *)
(* The texts of the model hold at most six digits in a row, so no parse   *)
(* of the model overflows its integer type.                                *)
(***************************************************************************)
RECURSIVE DigitsValue(_, _)
DigitsValue(s, acc) ==
    IF s = <<>> THEN acc ELSE DigitsValue(Tail(s), 10 * acc + DigitValue(s[1]))

AllDigits(s) == s # <<>> /\ \A k \in 1..Len(s) : s[k] \in Digits

\* parse::<u32>: an optional '+', then one or more digits.
parse_u32(s) ==
    LET d == IF s # <<>> /\ s[1] = "+" THEN Tail(s) ELSE s
    IN  IF AllDigits(d) THEN Some(DigitsValue(d, 0)) ELSE None

\* parse::<i32>: an optional '+' or '-', then one or more digits.
parse_i32(s) ==
    LET neg == s # <<>> /\ s[1] = "-"
        d == IF s # <<>> /\ s[1] \in {"+", "-"} THEN Tail(s) ELSE s
    IN  IF AllDigits(d)
        THEN Some(IF neg THEN -DigitsValue(d, 0) ELSE DigitsValue(d, 0))
        ELSE None

(***************************************************************************)
(* f32 arithmetic.  A finite f32 is [neg, m, e], standing for              *)
(* (-1)^neg * m * 2^e, with m = 0 (zero) or 2^23 <= m < 2^24.  Every       *)
(* operation rounds to nearest, ties to even, as IEEE 754 does.            *)
(* Intermediate values stay below 2^31.                                    *)
(***************************************************************************)
Pow2(k) == 2 ^ k

F32Zero == [neg |-> FALSE, m |-> 0, e |-> 0]

RECURSIVE F32Norm(_, _)
F32Norm(m, e) ==
    IF m = 0 THEN F32Zero
    ELSE IF m < Pow2(23) THEN F32Norm(2 * m, e - 1)
    ELSE [neg |-> FALSE, m |-> m, e |-> e]

\* An integer below 2^24 as an f32 (exact).
F32FromNat(n) == F32Norm(n, 0)

\* q rounded up or not, from the remainder r of a division by d.
RoundEven(q, r, d) ==
    IF 2 * r > d \/ (2 * r = d /\ q % 2 = 1) THEN q + 1 ELSE q

\* A rounded mantissa that reached 2^24 is renormalised.
F32Pack(neg, m, e) ==
    IF m = Pow2(24) THEN [neg |-> neg, m |-> Pow2(23), e |-> e + 1]
    ELSE [neg |-> neg, m |-> m, e |-> e]

\* k more quotient bits of r / d, by shift and subtract.
RECURSIVE DivBits(_, _, _, _)
DivBits(q, r, d, k) ==
    IF k = 0 THEN <<q, r>>
    ELSE IF 2 * r >= d THEN DivBits(2 * q + 1, 2 * r - d, d, k - 1)
         ELSE DivBits(2 * q, 2 * r, d, k - 1)

F32Div(a, b) ==
    IF a.m = 0 THEN [F32Zero EXCEPT !.neg = (a.neg # b.neg)]
    ELSE LET k == IF a.m >= b.m THEN 23 ELSE 24
             qr == DivBits(a.m \div b.m, a.m % b.m, b.m, k)
         IN  F32Pack(a.neg # b.neg, RoundEven(qr[1], qr[2], b.m),
                     a.e - b.e - k)

\* The 48-bit product of the mantissas in two 24-bit halves, then rounded.
F32Mul(a, b) ==
    IF a.m = 0 \/ b.m = 0 THEN [F32Zero EXCEPT !.neg = (a.neg # b.neg)]
    ELSE LET B == Pow2(12)
             a1 == a.m \div B
             a0 == a.m % B
             b1 == b.m \div B
             b0 == b.m % B
             mid == a1 * b0 + a0 * b1
             low == a0 * b0 + (mid % B) * B
             lo == low % Pow2(24)
             hi == a1 * b1 + (mid \div B) + (low \div Pow2(24))
         IN  IF hi >= Pow2(23)
             THEN F32Pack(a.neg # b.neg, RoundEven(hi, lo, Pow2(24)),
                          a.e + b.e + 24)
             ELSE F32Pack(a.neg # b.neg,
                          RoundEven(2 * hi + (lo \div Pow2(23)),
                                    lo % Pow2(23), Pow2(23)),
                          a.e + b.e + 23)

\* `as u32`: the value truncated toward zero; a negative value gives 0.
F32AsU32(a) ==
    IF a.neg THEN 0
    ELSE IF a.e >= 0 THEN a.m * Pow2(a.e)
    ELSE IF -a.e > 30 THEN 0
    ELSE a.m \div Pow2(-a.e)

\* The literal 33.8639 as an f32: 8877218 * 2^-18.
HpaPerInch == [neg |-> FALSE, m |-> 8877218, e |-> -18]

Pad2(n) == IF n < 10 THEN "0" \o ToString(n) ELSE ToString(n)

\* format!("{:.2}", x): the value rounded to hundredths, ties to even.
FormatF32Dot2(a) ==
    LET h == IF a.e >= 0 THEN a.m * 100 * Pow2(a.e)
             ELSE IF -a.e > 30 THEN 0
             ELSE RoundEven((a.m * 100) \div Pow2(-a.e),
                            (a.m * 100) % Pow2(-a.e), Pow2(-a.e))
    IN  (IF a.neg THEN "-" ELSE "") \o ToString(h \div 100) \o "."
            \o Pad2(h % 100)

(***************************************************************************)
(* parse::<f32> of a decimal text: an optional sign, digits, at most one   *)
(* '.', at least one digit.  The result holds the sign, the digits as one  *)
(* number n and the count k of fraction digits: the value is n / 10^k.     *)
(* Exponents, "inf" and "nan" are outside the texts of the model.          *)
(***************************************************************************)
parse_f32(s) ==
    LET neg == s # <<>> /\ s[1] = "-"
        body == IF s # <<>> /\ s[1] \in {"+", "-"} THEN Tail(s) ELSE s
        dots == {k \in 1..Len(body) : body[k] = "."}
        ds == SelectSeq(body, LAMBDA c : c # ".")
    IN  IF Cardinality(dots) <= 1 /\ AllDigits(ds)
        THEN Some([neg |-> neg, n |-> DigitsValue(ds, 0),
                   k |-> IF dots = {} THEN 0
                         ELSE Len(body) - (CHOOSE d \in dots : TRUE)])
        ELSE None

\* The f32 nearest to a parsed decimal (n and 10^k are exact in f32).
F32OfDec(d) ==
    LET q == IF d.k = 0 THEN F32FromNat(d.n)
             ELSE F32Div(F32FromNat(d.n), F32FromNat(10 ^ d.k))
    IN  [q EXCEPT !.neg = d.neg]

RECURSIVE DecNorm(_)
DecNorm(d) ==
    IF d.k > 0 /\ d.n % 10 = 0
    THEN DecNorm([d EXCEPT !.n = d.n \div 10, !.k = d.k - 1])
    ELSE d

RECURSIVE PadK(_, _)
PadK(x, k) == IF k = 0 THEN "" ELSE PadK(x \div 10, k - 1) \o ToString(x % 10)

\* Display of an f32 ("{}"): the shortest decimal that reads back as the
\* same f32, which for a decimal of at most 6 significant digits is that
\* decimal without its trailing fraction zeros.
DisplayF32(d) ==
    LET c == DecNorm(d)
    IN  (IF c.neg THEN "-" ELSE "") \o ToString(c.n \div (10 ^ c.k))
        \o (IF c.k = 0 THEN "" ELSE "." \o PadK(c.n % (10 ^ c.k), c.k))

(***************************************************************************)
(* src/src/utils.rs                                                        *)
(***************************************************************************)
degrees_to_cardinal(degrees) ==
    IF degrees \in 0..22 \/ degrees \in 338..360 THEN "N"
    ELSE IF degrees \in 23..67 THEN "NE"
    ELSE IF degrees \in 68..112 THEN "E"
    ELSE IF degrees \in 113..157 THEN "SE"
    ELSE IF degrees \in 158..202 THEN "S"
    ELSE IF degrees \in 203..247 THEN "SW"
    ELSE IF degrees \in 248..292 THEN "W"
    ELSE IF degrees \in 293..337 THEN "NW"
    ELSE ""

\* The prefixes that mark a cloud, altimeter or fraction group.
NotWeatherPrefixes ==
    {<<"S", "K", "C">>, <<"C", "L", "R">>, <<"F", "E", "W">>,
     <<"S", "C", "T">>, <<"B", "K", "N">>, <<"O", "V", "C">>, <<"V", "V">>,
     <<"N", "S", "C">>, <<"N", "C", "D">>, <<"A">>, <<"Q">>}

weather_codes ==
    {<<"R", "A">>, <<"S", "N">>, <<"D", "Z">>, <<"P", "L">>, <<"G", "R">>,
     <<"G", "S">>, <<"U", "P">>, <<"I", "C">>, <<"S", "G">>, <<"B", "R">>,
     <<"F", "G">>, <<"F", "U">>, <<"V", "A">>, <<"D", "U">>, <<"S", "A">>,
     <<"H", "Z">>, <<"P", "Y">>, <<"S", "Q">>, <<"F", "C">>, <<"S", "S">>,
     <<"D", "S">>, <<"P", "O">>, <<"M", "I">>, <<"B", "C">>, <<"D", "R">>,
     <<"B", "L">>, <<"S", "H">>, <<"T", "S">>, <<"F", "Z">>, <<"P", "R">>}

is_weather_code(code) ==
    IF (\E p \in NotWeatherPrefixes : starts_with(code, p))
       \/ contains(code, <<"/">>)
    THEN FALSE
    ELSE \E wx \in weather_codes : contains(code, wx)

\* The descriptor phrase of a two-letter code ("" when it is none).
Descriptor(c) ==
    CASE c = <<"M", "I">> -> "Shallow"
      [] c = <<"B", "C">> -> "Patches"
      [] c = <<"D", "R">> -> "Low drifting"
      [] c = <<"B", "L">> -> "Blowing"
      [] c = <<"S", "H">> -> "Showers"
      [] c = <<"T", "S">> -> "Thunderstorm"
      [] c = <<"F", "Z">> -> "Freezing"
      [] c = <<"P", "R">> -> "Partial"
      [] OTHER -> ""

\* The phenomenon name of a two-letter code ("" when it is none).
Phenomenon(c) ==
    CASE c = <<"D", "Z">> -> "drizzle"
      [] c = <<"R", "A">> -> "rain"
      [] c = <<"S", "N">> -> "snow"
      [] c = <<"S", "G">> -> "snow grains"
      [] c = <<"I", "C">> -> "ice crystals"
      [] c = <<"G", "R">> -> "hail"
      [] c = <<"P", "L">> -> "ice pellets"
      [] c = <<"H", "Z">> -> "haze"
      [] c = <<"F", "U">> -> "smoke"
      [] c = <<"F", "G">> -> "fog"
      [] c = <<"B", "R">> -> "mist"
      [] c = <<"S", "Q">> -> "squalls"
      [] c = <<"F", "C">> -> "funnel cloud"
      [] c = <<"G", "S">> -> "small hail/snow pellets"
      [] c = <<"U", "P">> -> "unknown precipitation"
      [] c = <<"V", "A">> -> "volcanic ash"
      [] c = <<"D", "U">> -> "widespread dust"
      [] c = <<"S", "A">> -> "sand"
      [] c = <<"P", "O">> -> "dust/sand whirls"
      [] c = <<"S", "S">> -> "sandstorm"
      [] c = <<"D", "S">> -> "dust storm"
      [] c = <<"P", "Y">> -> "spray"
      [] OTHER -> ""

\* The two characters of chars at 0-based offset k (fewer at the end).
Two(chars, k) == SubSeq(chars, k + 1, IF k + 2 <= Len(chars) THEN k + 2
                                      ELSE Len(chars))

\* An intensity step that knows the two signs alone.
DecodeIntensitySigns(chars) ==
    IF chars = <<>> THEN <<(<<>>), 0>>
    ELSE IF chars[1] = "-" THEN <<(<<"Light">>), 1>>
    ELSE IF chars[1] = "+" THEN <<(<<"Heavy">>), 1>>
    ELSE <<(<<>>), 0>>

\* The intensity step: <<phrases so far, next offset>>.
DecodeIntensity(chars) ==
    IF chars = <<>> THEN <<(<<>>), 0>>
    ELSE IF chars[1] = "-" THEN <<(<<"Light">>), 1>>
    ELSE IF chars[1] = "+" THEN <<(<<"Heavy">>), 1>>
    ELSE IF Two(chars, 0) = <<"V", "C">> THEN <<(<<"In vicinity">>), 2>>
    ELSE <<(<<>>), 0>>

\* The descriptor loop: <<phrases, next offset>>.
RECURSIVE DecodeDescriptors(_, _, _)
DecodeDescriptors(chars, k, acc) ==
    IF k < Len(chars) /\ is_alphabetic(chars[k + 1])
       /\ Descriptor(Two(chars, k)) # ""
    THEN DecodeDescriptors(chars, k + 2,
                           Append(acc, Descriptor(Two(chars, k))))
    ELSE <<acc, k>>

\* The phenomenon loop: the names, pushed one after the other.
RECURSIVE DecodePhenomena(_, _)
DecodePhenomena(chars, k) ==
    IF k < Len(chars) /\ is_alphabetic(chars[k + 1])
       /\ Phenomenon(Two(chars, k)) # ""
    THEN Phenomenon(Two(chars, k)) \o DecodePhenomena(chars, k + 2)
    ELSE ""

\* Every phrase is pushed followed by a space, every name without one, and
\* the result is trimmed: the trailing space goes when no name follows.
decode_weather(code) ==
    LET int == DecodeIntensity(code)
        des == DecodeDescriptors(code, int[2], int[1])
        phen == DecodePhenomena(code, des[2])
    IN  IF phen = "" THEN join(des[1], " ")
        ELSE IF des[1] = <<>> THEN phen
        ELSE join(des[1], " ") \o " " \o phen

\* Integer division of the code: the quotient truncated toward zero.
TruncDiv(a, b) == IF a >= 0 THEN a \div b ELSE -((-a) \div b)

\* A conversion by flooring division.
celsius_to_fahrenheit_floor(celsius) == ((celsius * 9) \div 5) + 32

\* A conversion without the offset.
celsius_to_fahrenheit_no_offset(celsius) == TruncDiv(celsius * 9, 5)

celsius_to_fahrenheit(celsius) == TruncDiv(celsius * 9, 5) + 32

(***************************************************************************)
(* src/src/models.rs: MetarInfo, and its Default.                          *)
(***************************************************************************)
DefaultInfo ==
    [station |-> "", date_time |-> "", zulu_day |-> None,
     zulu_hour |-> None, zulu_minute |-> None, wind |-> "",
     visibility |-> "", weather |-> "", clouds |-> "", temperature |-> "",
     dewpoint |-> "", altimeter |-> "", altimeter_hpa |-> None,
     altimeter_inches |-> None, altimeter_default_unit |-> "",
     remarks |-> "", raw |-> ""]

(***************************************************************************)
(* src/src/services.rs: parse_metar, one action per stage and one per      *)
(* evaluation of a loop (its condition and, when it holds, its body).      *)
(* pc is the stage about to run; "done" is the return of the report and    *)
(* "panic" the abort of the call by a slice out of range.                  *)
(***************************************************************************)
\* parts[k] of the code (0-based).
Part(k) == parts[k + 1]

HasPart == i < Len(parts)

\* A decoder without the early return.
parts_is_empty_never(ps) == FALSE

\* parts.is_empty(), the early return of an input without tokens.
parts_is_empty(ps) == ps = <<>>

\* A decoder that keeps the trimmed text as raw.
StartRawTrimmed ==
    /\ pc = "start"
    /\ info' = [DefaultInfo EXCEPT !.station = Str(icao),
                                   !.raw = Str(trim(metar))]
    /\ parts' = split_whitespace(metar)
    /\ i' = 0
    /\ pc' = IF parts_is_empty(parts') THEN "done" ELSE "report_type"
    /\ UNCHANGED <<handler_vars, metar, icao, cavok_found, cloud_layers,
                   remark_parts, temp_c, dew_c, iters>>

Start ==
    /\ pc = "start"
    /\ info' = [DefaultInfo EXCEPT !.station = Str(icao), !.raw = Str(metar)]
    /\ parts' = split_whitespace(metar)
    /\ i' = 0
    /\ pc' = IF parts_is_empty(parts') THEN "done" ELSE "report_type"
    /\ UNCHANGED <<handler_vars, metar, icao, cavok_found, cloud_layers, remark_parts,
                   temp_c, dew_c, iters>>

ReportType ==
    /\ pc = "report_type"
    /\ i' = IF HasPart /\ Part(i) \in {<<"M", "E", "T", "A", "R">>,
                                      <<"S", "P", "E", "C", "I">>}
            THEN i + 1 ELSE i
    /\ pc' = "station"
    /\ UNCHANGED <<handler_vars, metar, icao, parts, info, cavok_found, cloud_layers,
                   remark_parts, temp_c, dew_c, iters>>

\* A station stage that keeps the hint.
StationKeepsHint ==
    /\ pc = "station"
    /\ i' = IF HasPart THEN i + 1 ELSE i
    /\ pc' = "time"
    /\ UNCHANGED <<handler_vars, metar, icao, parts, info, cavok_found,
                   cloud_layers, remark_parts, temp_c, dew_c, iters>>

Station ==
    /\ pc = "station"
    /\ IF HasPart
       THEN /\ info' = [info EXCEPT !.station = Str(Part(i))]
            /\ i' = i + 1
       ELSE UNCHANGED <<info, i>>
    /\ pc' = "time"
    /\ UNCHANGED <<handler_vars, metar, icao, parts, cavok_found, cloud_layers,
                   remark_parts, temp_c, dew_c, iters>>

\* An observation-time stage that consumes the token only when it parses.
ObservationTimeParsedOnly ==
    /\ pc = "time"
    /\ IF HasPart /\ Len(Part(i)) = 7 /\ ends_with(Part(i), <<"Z">>)
       THEN LET dt == Part(i)
                day == parse_u32(Slice(dt, 0, 2))
                hour == parse_u32(Slice(dt, 2, 4))
                min == parse_u32(Slice(dt, 4, 6))
            IN  IF day # None /\ hour # None /\ min # None
                THEN /\ info' = [info EXCEPT
                                   !.zulu_day = day,
                                   !.zulu_hour = hour,
                                   !.zulu_minute = min,
                                   !.date_time =
                                       "Day " \o ToString(day[1]) \o ", "
                                       \o ToString(hour[1]) \o ":"
                                       \o Pad2(min[1]) \o "Z"]
                     /\ i' = i + 1
                ELSE UNCHANGED <<info, i>>
       ELSE UNCHANGED <<info, i>>
    /\ pc' = "modifiers"
    /\ UNCHANGED <<handler_vars, metar, icao, parts, cavok_found,
                   cloud_layers, remark_parts, temp_c, dew_c, iters>>

ObservationTime ==
    /\ pc = "time"
    /\ IF HasPart /\ Len(Part(i)) = 7 /\ ends_with(Part(i), <<"Z">>)
       THEN LET dt == Part(i)
                day == parse_u32(Slice(dt, 0, 2))
                hour == parse_u32(Slice(dt, 2, 4))
                min == parse_u32(Slice(dt, 4, 6))
            IN  /\ info' = IF day # None /\ hour # None /\ min # None
                           THEN [info EXCEPT
                                   !.zulu_day = day,
                                   !.zulu_hour = hour,
                                   !.zulu_minute = min,
                                   !.date_time =
                                       "Day " \o ToString(day[1]) \o ", "
                                       \o ToString(hour[1]) \o ":"
                                       \o Pad2(min[1]) \o "Z"]
                           ELSE info
                /\ i' = i + 1
       ELSE UNCHANGED <<info, i>>
    /\ pc' = "modifiers"
    /\ UNCHANGED <<handler_vars, metar, icao, parts, cavok_found, cloud_layers,
                   remark_parts, temp_c, dew_c, iters>>

\* A modifier loop whose body forgets to advance the cursor.
ModifiersNoAdvance ==
    /\ pc = "modifiers"
    /\ IF HasPart /\ Part(i) \in {<<"C", "O", "R">>, <<"A", "U", "T", "O">>,
                                 <<"N", "I", "L">>}
       THEN /\ iters' = iters + 1
            /\ pc' = "modifiers"
            /\ UNCHANGED i
       ELSE /\ pc' = "wind"
            /\ UNCHANGED <<i, iters>>
    /\ UNCHANGED <<handler_vars, metar, icao, parts, info, cavok_found, cloud_layers,
                   remark_parts, temp_c, dew_c>>

Modifiers ==
    /\ pc = "modifiers"
    /\ IF HasPart /\ Part(i) \in {<<"C", "O", "R">>, <<"A", "U", "T", "O">>,
                                 <<"N", "I", "L">>}
       THEN /\ i' = i + 1
            /\ iters' = iters + 1
            /\ pc' = "modifiers"
       ELSE /\ pc' = "wind"
            /\ UNCHANGED <<i, iters>>
    /\ UNCHANGED <<handler_vars, metar, icao, parts, info, cavok_found, cloud_layers,
                   remark_parts, temp_c, dew_c>>

\* The gust of a wind token that contains 'G': [panic, gust], the two
\* characters after the first 'G' parsed, or a slice out of range.
Gust(wind) ==
    LET gust_pos == find(wind, "G")[1]
    IN  IF ~SliceOk(wind, gust_pos + 1, gust_pos + 3)
        THEN [panic |-> TRUE, gust |-> None]
        ELSE [panic |-> FALSE,
              gust |-> parse_u32(Slice(wind, gust_pos + 1, gust_pos + 3))]

\* The variable-wind branch: [panic, set, wind].
VariableWind(wind) ==
    IF ~SliceOk(wind, 3, 5) THEN [panic |-> TRUE, set |-> FALSE, wind |-> ""]
    ELSE LET speed == parse_u32(Slice(wind, 3, 5))
         IN  IF speed = None
             THEN [panic |-> FALSE, set |-> FALSE, wind |-> ""]
             ELSE IF ~contains(wind, <<"G">>)
             THEN [panic |-> FALSE, set |-> TRUE,
                   wind |-> "Variable at " \o ToString(speed[1]) \o " knots"]
             ELSE IF Gust(wind).panic
             THEN [panic |-> TRUE, set |-> FALSE, wind |-> ""]
             ELSE IF Gust(wind).gust = None
             THEN [panic |-> FALSE, set |-> TRUE,
                   wind |-> "Variable at " \o ToString(speed[1]) \o " knots"]
             ELSE [panic |-> FALSE, set |-> TRUE,
                   wind |-> "Variable at " \o ToString(speed[1])
                            \o " knots, gusting to "
                            \o ToString(Gust(wind).gust[1]) \o " knots"]

\* The directional branch (length >= 7, ends "KT"): [panic, set, wind].
DirectionalWind(wind) ==
    LET dir == parse_u32(Slice(wind, 0, 3))
        speed == parse_u32(Slice(wind, 3, 5))
        plain == ToString(dir[1]) \o " degrees ("
                 \o degrees_to_cardinal(dir[1]) \o ") at "
                 \o ToString(speed[1]) \o " knots"
    IN  IF dir = None \/ speed = None
        THEN [panic |-> FALSE, set |-> FALSE, wind |-> ""]
        ELSE IF ~contains(wind, <<"G">>)
        THEN [panic |-> FALSE, set |-> TRUE, wind |-> plain]
        ELSE IF Gust(wind).panic
        THEN [panic |-> TRUE, set |-> FALSE, wind |-> ""]
        ELSE IF Gust(wind).gust = None
        THEN [panic |-> FALSE, set |-> TRUE, wind |-> plain]
        ELSE [panic |-> FALSE, set |-> TRUE,
              wind |-> plain \o ", gusting to "
                       \o ToString(Gust(wind).gust[1]) \o " knots"]

\* A clause only for a token of seven characters with 'V' in the middle.
VariableDirectionStrict(var_wind) ==
    IF Len(var_wind) = 7 /\ var_wind[4] = "V"
    THEN LET from_dir == parse_u32(Slice(var_wind, 0, 3))
             to_dir == parse_u32(Slice(var_wind, 4, 7))
         IN  IF from_dir # None /\ to_dir # None
             THEN ", variable between " \o ToString(from_dir[1]) \o " and "
                  \o ToString(to_dir[1]) \o " degrees"
             ELSE ""
    ELSE ""

\* The clause of a variable-direction token after a directional wind
\* ("" when the token is none).
VariableDirection(var_wind) ==
    IF contains(var_wind, <<"V">>) /\ Len(var_wind) >= 5
    THEN LET v_pos == find(var_wind, "V")[1]
             from_dir == parse_u32(Slice(var_wind, 0, v_pos))
             to_dir == parse_u32(Slice(var_wind, v_pos + 1, Len(var_wind)))
         IN  IF from_dir # None /\ to_dir # None
             THEN ", variable between " \o ToString(from_dir[1]) \o " and "
                  \o ToString(to_dir[1]) \o " degrees"
             ELSE ""
    ELSE ""

\* A wind stage that takes the token after a directional wind unseen.
CursorAfterWindUnchecked(k, set, clause) == IF ~set THEN k ELSE k + 2

\* The cursor after the wind stage: past the wind token when wind was set,
\* and past the variable-direction token when its clause was added.
CursorAfterWind(k, set, clause) ==
    IF ~set THEN k ELSE IF clause # "" THEN k + 2 ELSE k + 1

Wind ==
    /\ pc = "wind"
    /\ IF ~HasPart THEN /\ pc' = "cavok"
                        /\ UNCHANGED <<info, i>>
       ELSE LET wind == Part(i)
                r == IF starts_with(wind, <<"V", "R", "B">>)
                     THEN VariableWind(wind)
                     ELSE IF Len(wind) >= 7 /\ ends_with(wind, <<"K", "T">>)
                     THEN DirectionalWind(wind)
                     ELSE [panic |-> FALSE, set |-> FALSE, wind |-> ""]
                directional == ~starts_with(wind, <<"V", "R", "B">>)
                clause == IF r.set /\ directional /\ i + 1 < Len(parts)
                          THEN VariableDirection(Part(i + 1))
                          ELSE ""
            IN  IF r.panic
                THEN /\ pc' = "panic"
                     /\ UNCHANGED <<info, i>>
                ELSE /\ pc' = "cavok"
                     /\ info' = IF r.set
                                THEN [info EXCEPT !.wind = r.wind \o clause]
                                ELSE info
                     /\ i' = CursorAfterWind(i, r.set, clause)
    /\ UNCHANGED <<handler_vars, metar, icao, parts, cavok_found, cloud_layers,
                   remark_parts, temp_c, dew_c, iters>>

\* A CAVOK stage that sets the visibility alone.
CavokVisibilityOnly ==
    /\ pc = "cavok"
    /\ IF HasPart /\ Part(i) = <<"C", "A", "V", "O", "K">>
       THEN /\ info' = [info EXCEPT !.visibility = "10 kilometers or more"]
            /\ cavok_found' = TRUE
            /\ i' = i + 1
       ELSE /\ cavok_found' = FALSE
            /\ UNCHANGED <<info, i>>
    /\ pc' = "visibility"
    /\ UNCHANGED <<handler_vars, metar, icao, parts, cloud_layers, remark_parts, temp_c,
                   dew_c, iters>>

Cavok ==
    /\ pc = "cavok"
    /\ IF HasPart /\ Part(i) = <<"C", "A", "V", "O", "K">>
       THEN /\ info' = [info EXCEPT
                          !.visibility = "10 kilometers or more",
                          !.clouds = "No clouds below 5,000 feet",
                          !.weather = "None significant"]
            /\ cavok_found' = TRUE
            /\ i' = i + 1
       ELSE /\ cavok_found' = FALSE
            /\ UNCHANGED <<info, i>>
    /\ pc' = "visibility"
    /\ UNCHANGED <<handler_vars, metar, icao, parts, cloud_layers, remark_parts, temp_c,
                   dew_c, iters>>

\* A visibility stage that consumes an "SM" token only when its prefix is
\* a number.
VisibilityNumericOnly ==
    /\ pc = "visibility"
    /\ IF ~cavok_found /\ HasPart
       THEN LET vis == Part(i)
                miles == parse_f32(Slice(vis, 0, Len(vis) - 2))
                meters == parse_u32(vis)
            IN  IF vis = <<"9", "9", "9", "9">>
                THEN /\ info' = [info EXCEPT
                                   !.visibility = "10 kilometers or more"]
                     /\ i' = i + 1
                ELSE IF ends_with(vis, <<"S", "M">>) /\ miles # None
                THEN /\ info' = [info EXCEPT !.visibility =
                                   DisplayF32(miles[1]) \o " statute miles"]
                     /\ i' = i + 1
                ELSE IF ~ends_with(vis, <<"S", "M">>) /\ meters # None
                THEN /\ info' = [info EXCEPT !.visibility =
                                   IF meters[1] >= 1000
                                   THEN ToString(meters[1] \div 1000)
                                        \o " kilometers"
                                   ELSE ToString(meters[1]) \o " meters"]
                     /\ i' = i + 1
                ELSE UNCHANGED <<info, i>>
       ELSE UNCHANGED <<info, i>>
    /\ pc' = "weather"
    /\ UNCHANGED <<handler_vars, metar, icao, parts, cavok_found, cloud_layers,
                   remark_parts, temp_c, dew_c, iters>>

Visibility ==
    /\ pc = "visibility"
    /\ IF ~cavok_found /\ HasPart
       THEN LET vis == Part(i)
                miles == parse_f32(Slice(vis, 0, Len(vis) - 2))
                meters == parse_u32(vis)
            IN  IF vis = <<"9", "9", "9", "9">>
                THEN /\ info' = [info EXCEPT
                                   !.visibility = "10 kilometers or more"]
                     /\ i' = i + 1
                ELSE IF ends_with(vis, <<"S", "M">>)
                THEN /\ info' = IF miles # None
                                THEN [info EXCEPT !.visibility =
                                        DisplayF32(miles[1])
                                        \o " statute miles"]
                                ELSE info
                     /\ i' = i + 1
                ELSE IF meters # None
                THEN /\ info' = [info EXCEPT !.visibility =
                                   IF meters[1] >= 1000
                                   THEN ToString(meters[1] \div 1000)
                                        \o " kilometers"
                                   ELSE ToString(meters[1]) \o " meters"]
                     /\ i' = i + 1
                ELSE UNCHANGED <<info, i>>
       ELSE UNCHANGED <<info, i>>
    /\ pc' = "weather"
    /\ UNCHANGED <<handler_vars, metar, icao, parts, cavok_found, cloud_layers,
                   remark_parts, temp_c, dew_c, iters>>

\* The prefixes at which the weather loop stops for the cloud stage.
CloudStopPrefixes ==
    {<<"S", "K", "C">>, <<"C", "L", "R">>, <<"F", "E", "W">>,
     <<"S", "C", "T">>, <<"B", "K", "N">>, <<"O", "V", "C">>, <<"V", "V">>}

\* is_weather of the weather loop.
is_weather(part) ==
    \/ starts_with(part, <<"-">>)
    \/ starts_with(part, <<"+">>)
    \/ starts_with(part, <<"V", "C">>)
    \/ is_weather_code(part)

\* A weather stage that also runs after CAVOK.
WeatherStageAlways == TRUE

\* Whether the weather stage runs at all (it is skipped after CAVOK).
WeatherStageRuns == ~cavok_found

\* A weather loop that skips the tokens it does not know.
WeatherSkipsUnknown ==
    /\ pc = "weather"
    /\ IF ~WeatherStageRuns
       THEN /\ pc' = "clouds"
            /\ UNCHANGED <<info, i, iters>>
       ELSE IF HasPart
               /\ ~(\E p \in CloudStopPrefixes : starts_with(Part(i), p))
       THEN LET weather_desc == IF is_weather(Part(i))
                                THEN decode_weather(Part(i)) ELSE ""
            IN  /\ info' = IF weather_desc = "" THEN info
                           ELSE IF info.weather = ""
                           THEN [info EXCEPT !.weather = weather_desc]
                           ELSE [info EXCEPT !.weather =
                                   info.weather \o ", " \o weather_desc]
                /\ i' = i + 1
                /\ iters' = iters + 1
                /\ pc' = "weather"
       ELSE /\ info' = IF info.weather = ""
                       THEN [info EXCEPT !.weather = "None"]
                       ELSE info
            /\ pc' = "clouds"
            /\ UNCHANGED <<i, iters>>
    /\ UNCHANGED <<handler_vars, metar, icao, parts, cavok_found,
                   cloud_layers, remark_parts, temp_c, dew_c>>

\* A weather loop that appends every description, empty ones too.
WeatherAppendsEmpty ==
    /\ pc = "weather"
    /\ IF ~WeatherStageRuns
       THEN /\ pc' = "clouds"
            /\ UNCHANGED <<info, i, iters>>
       ELSE IF HasPart
               /\ ~(\E p \in CloudStopPrefixes : starts_with(Part(i), p))
               /\ is_weather(Part(i))
       THEN LET weather_desc == decode_weather(Part(i))
            IN  /\ info' = IF info.weather = ""
                           THEN [info EXCEPT !.weather = weather_desc]
                           ELSE [info EXCEPT !.weather =
                                   info.weather \o ", " \o weather_desc]
                /\ i' = i + 1
                /\ iters' = iters + 1
                /\ pc' = "weather"
       ELSE /\ info' = IF info.weather = ""
                       THEN [info EXCEPT !.weather = "None"]
                       ELSE info
            /\ pc' = "clouds"
            /\ UNCHANGED <<i, iters>>
    /\ UNCHANGED <<handler_vars, metar, icao, parts, cavok_found,
                   cloud_layers, remark_parts, temp_c, dew_c>>

Weather ==
    /\ pc = "weather"
    /\ IF ~WeatherStageRuns
       THEN /\ pc' = "clouds"
            /\ UNCHANGED <<info, i, iters>>
       ELSE IF HasPart
               /\ ~(\E p \in CloudStopPrefixes : starts_with(Part(i), p))
               /\ is_weather(Part(i))
       THEN LET weather_desc == decode_weather(Part(i))
            IN  /\ info' = IF weather_desc = "" THEN info
                           ELSE IF info.weather = ""
                           THEN [info EXCEPT !.weather = weather_desc]
                           ELSE [info EXCEPT !.weather =
                                   info.weather \o ", " \o weather_desc]
                /\ i' = i + 1
                /\ iters' = iters + 1
                /\ pc' = "weather"
       ELSE /\ info' = IF info.weather = ""
                       THEN [info EXCEPT !.weather = "None"]
                       ELSE info
            /\ pc' = "clouds"
            /\ UNCHANGED <<i, iters>>
    /\ UNCHANGED <<handler_vars, metar, icao, parts, cavok_found, cloud_layers,
                   remark_parts, temp_c, dew_c>>

\* The tokens that end the cloud loop with one fixed layer.
ClearSky(part) ==
    IF starts_with(part, <<"S", "K", "C">>) THEN "Sky clear"
    ELSE IF starts_with(part, <<"C", "L", "R">>)
    THEN "Clear below 12,000 feet"
    ELSE IF starts_with(part, <<"N", "S", "C">>) THEN "No significant cloud"
    ELSE IF starts_with(part, <<"N", "C", "D">>) THEN "No cloud detected"
    ELSE ""

\* The layers a "VV" token adds.
VerticalVisibility(part) ==
    IF Len(part) >= 5
    THEN LET alt == parse_u32(Slice(part, 2, 5))
         IN  IF alt # None
             THEN <<"Sky obscured, vertical visibility "
                    \o ToString(alt[1] * 100) \o " feet">>
             ELSE <<>>
    ELSE <<"Sky obscured">>

CoveragePrefixes ==
    {<<"F", "E", "W">>, <<"S", "C", "T">>, <<"B", "K", "N">>,
     <<"O", "V", "C">>}

\* A layer whose altitude is left in hundreds of feet.
CoverageLayerUnscaled(part) ==
    LET p == Slice(part, 0, 3)
        coverage == CASE p = <<"F", "E", "W">> -> "Few"
                      [] p = <<"S", "C", "T">> -> "Scattered"
                      [] p = <<"B", "K", "N">> -> "Broken"
                      [] p = <<"O", "V", "C">> -> "Overcast"
                      [] OTHER -> ""
        alt == parse_u32(Slice(part, 3, 6))
    IN  IF coverage # "" /\ Len(part) >= 6 /\ alt # None
        THEN <<coverage \o " at " \o ToString(alt[1]) \o " feet">>
        ELSE <<>>

\* The layers a FEW/SCT/BKN/OVC token adds.
CoverageLayer(part) ==
    LET p == Slice(part, 0, 3)
        coverage == CASE p = <<"F", "E", "W">> -> "Few"
                      [] p = <<"S", "C", "T">> -> "Scattered"
                      [] p = <<"B", "K", "N">> -> "Broken"
                      [] p = <<"O", "V", "C">> -> "Overcast"
                      [] OTHER -> ""
        alt == parse_u32(Slice(part, 3, 6))
        cloud_type == IF ends_with(part, <<"C", "B">>) THEN " (cumulonimbus)"
                      ELSE IF ends_with(part, <<"T", "C", "U">>)
                      THEN " (towering cumulus)"
                      ELSE ""
    IN  IF coverage # "" /\ Len(part) >= 6 /\ alt # None
        THEN <<coverage \o " at " \o ToString(alt[1] * 100) \o " feet"
               \o cloud_type>>
        ELSE <<>>

\* A handoff test that knows the prefixes alone.
CloudHandoffPrefixes(part) ==
    \E p \in {<<"A">>, <<"Q">>, <<"T">>, <<"M">>, <<"R", "M", "K">>,
               <<"N", "O", "S", "I", "G">>} : starts_with(part, p)

\* The tokens at which the cloud loop stops without consuming them.
CloudHandoff(part) ==
    \/ \E p \in {<<"A">>, <<"Q">>, <<"T">>, <<"M">>, <<"R", "M", "K">>,
                 <<"N", "O", "S", "I", "G">>} : starts_with(part, p)
    \/ (contains(part, <<"/">>) /\ Len(part) <= 7)

\* A clouds field with no default text.
CloudsFieldJoined(layers) == join(layers, ", ")

\* info.clouds once the cloud loop has ended.
CloudsField(layers) ==
    IF layers = <<>> THEN "No cloud information" ELSE join(layers, ", ")

\* A cloud loop that goes on after a clear-sky token.
CloudsPastClearSky ==
    /\ pc = "clouds"
    /\ IF cavok_found
       THEN /\ pc' = "final"
            /\ UNCHANGED <<info, i, iters, cloud_layers>>
       ELSE IF ~HasPart \/ (ClearSky(Part(i)) = ""
                            /\ ~starts_with(Part(i), <<"V", "V">>)
                            /\ ~(\E p \in CoveragePrefixes :
                                    starts_with(Part(i), p))
                            /\ CloudHandoff(Part(i)))
       THEN /\ info' = [info EXCEPT !.clouds = CloudsField(cloud_layers)]
            /\ pc' = "final"
            /\ UNCHANGED <<i, iters, cloud_layers>>
       ELSE /\ cloud_layers' =
                  IF ClearSky(Part(i)) # ""
                  THEN Append(cloud_layers, ClearSky(Part(i)))
                  ELSE IF starts_with(Part(i), <<"V", "V">>)
                  THEN cloud_layers \o VerticalVisibility(Part(i))
                  ELSE IF \E p \in CoveragePrefixes : starts_with(Part(i), p)
                  THEN cloud_layers \o CoverageLayer(Part(i))
                  ELSE cloud_layers
            /\ i' = i + 1
            /\ iters' = iters + 1
            /\ pc' = "clouds"
            /\ UNCHANGED info
    /\ UNCHANGED <<handler_vars, metar, icao, parts, cavok_found, remark_parts, temp_c,
                   dew_c>>

Clouds ==
    /\ pc = "clouds"
    /\ IF cavok_found
       THEN /\ pc' = "final"
            /\ UNCHANGED <<info, i, iters, cloud_layers>>
       ELSE IF ~HasPart \/ (ClearSky(Part(i)) = ""
                            /\ ~starts_with(Part(i), <<"V", "V">>)
                            /\ ~(\E p \in CoveragePrefixes :
                                    starts_with(Part(i), p))
                            /\ CloudHandoff(Part(i)))
       THEN /\ info' = [info EXCEPT !.clouds = CloudsField(cloud_layers)]
            /\ pc' = "final"
            /\ UNCHANGED <<i, iters, cloud_layers>>
       ELSE IF ClearSky(Part(i)) # ""
       THEN /\ cloud_layers' = Append(cloud_layers, ClearSky(Part(i)))
            /\ i' = i + 1
            /\ iters' = iters + 1
            /\ info' = [info EXCEPT !.clouds = CloudsField(cloud_layers')]
            /\ pc' = "final"
       ELSE /\ cloud_layers' =
                  IF starts_with(Part(i), <<"V", "V">>)
                  THEN cloud_layers \o VerticalVisibility(Part(i))
                  ELSE IF \E p \in CoveragePrefixes : starts_with(Part(i), p)
                  THEN cloud_layers \o CoverageLayer(Part(i))
                  ELSE cloud_layers
            /\ i' = i + 1
            /\ iters' = iters + 1
            /\ pc' = "clouds"
            /\ UNCHANGED info
    /\ UNCHANGED <<handler_vars, metar, icao, parts, cavok_found, remark_parts, temp_c,
                   dew_c>>

\* The temperature/dewpoint group: None, or Some of the two Celsius values.
ParseTemperature(part) ==
    LET temp_parts == split(part, "/")
        t == temp_parts[1]
        temp_neg == starts_with(t, <<"M">>)
        temp_str == IF temp_neg \/ starts_with(t, <<"T">>) THEN Tail(t) ELSE t
        d == temp_parts[2]
        dew_neg == starts_with(d, <<"M">>)
        dew_str == IF dew_neg THEN Tail(d) ELSE d
        tc == parse_i32(temp_str)
        dc == parse_i32(dew_str)
    IN  IF contains(part, <<"/">>) /\ Len(part) <= 7 /\ Len(temp_parts) = 2
           /\ tc # None /\ dc # None
        THEN Some([temp_c |-> IF temp_neg THEN -tc[1] ELSE tc[1],
                   dew_c |-> IF dew_neg THEN -dc[1] ELSE dc[1]])
        ELSE None

\* format!("{}°C ({}°F)", c, f).
FormatTemperature(c) ==
    ToString(c) \o "°C (" \o ToString(celsius_to_fahrenheit(c)) \o "°F)"

\* A conversion that rounds to the nearest hectopascal.
InchesToHpaRounded(inches) ==
    LET p == F32Mul(inches, HpaPerInch)
    IN  IF p.e >= 0 \/ -p.e > 30 THEN F32AsU32(p)
        ELSE RoundEven(p.m \div Pow2(-p.e), p.m % Pow2(-p.e), Pow2(-p.e))

\* (inches * 33.8639) as u32.
InchesToHpa(inches) == F32AsU32(F32Mul(inches, HpaPerInch))

\* The "A" altimeter group: the report with the altimeter fields set.
AltimeterInches(inf, part) ==
    LET inches_raw == parse_f32(Tail(part))
        inches == F32Div(F32OfDec(inches_raw[1]), F32FromNat(100))
    IN  IF inches_raw = None THEN inf
        ELSE [inf EXCEPT
                !.altimeter = FormatF32Dot2(inches) \o " inches of mercury",
                !.altimeter_inches = Some(inches),
                !.altimeter_hpa = Some(InchesToHpa(inches)),
                !.altimeter_default_unit = "inches"]

\* A "Q" group that leaves the inches unset.
AltimeterHpaOnly(inf, part) ==
    LET hpa == parse_u32(Tail(part))
    IN  IF hpa = None THEN inf
        ELSE [inf EXCEPT
                !.altimeter = ToString(hpa[1]) \o " hectopascals",
                !.altimeter_hpa = hpa,
                !.altimeter_default_unit = "hpa"]

\* The "Q" altimeter group.
AltimeterHpa(inf, part) ==
    LET hpa == parse_u32(Tail(part))
    IN  IF hpa = None THEN inf
        ELSE [inf EXCEPT
                !.altimeter = ToString(hpa[1]) \o " hectopascals",
                !.altimeter_hpa = hpa,
                !.altimeter_inches =
                    Some(F32Div(F32FromNat(hpa[1]), HpaPerInch)),
                !.altimeter_default_unit = "hpa"]

\* A final section that only consumes a token of the temperature shape.
FinalSectionNoFallThrough ==
    /\ pc = "final"
    /\ IF ~HasPart
       THEN /\ pc' = "done"
            /\ UNCHANGED <<info, i, iters, temp_c, dew_c, remark_parts>>
       ELSE LET part == Part(i)
                temp == ParseTemperature(part)
            IN  /\ i' = i + 1
                /\ iters' = iters + 1
                /\ IF temp # None
                   THEN /\ info' = [info EXCEPT
                              !.temperature = FormatTemperature(temp[1].temp_c),
                              !.dewpoint = FormatTemperature(temp[1].dew_c)]
                        /\ temp_c' = Some(temp[1].temp_c)
                        /\ dew_c' = Some(temp[1].dew_c)
                        /\ pc' = "final"
                        /\ UNCHANGED remark_parts
                   ELSE IF contains(part, <<"/">>) /\ Len(part) <= 7
                   THEN /\ pc' = "final"
                        /\ UNCHANGED <<info, temp_c, dew_c, remark_parts>>
                   ELSE IF starts_with(part, <<"A">>) /\ Len(part) = 5
                   THEN /\ info' = AltimeterInches(info, part)
                        /\ pc' = "final"
                        /\ UNCHANGED <<temp_c, dew_c, remark_parts>>
                   ELSE IF starts_with(part, <<"Q">>) /\ Len(part) = 5
                   THEN /\ info' = AltimeterHpa(info, part)
                        /\ pc' = "final"
                        /\ UNCHANGED <<temp_c, dew_c, remark_parts>>
                   ELSE IF starts_with(part, <<"R", "M", "K">>)
                   THEN /\ remark_parts' = <<>>
                        /\ pc' = "remarks"
                        /\ UNCHANGED <<info, temp_c, dew_c>>
                   ELSE /\ pc' = "final"
                        /\ UNCHANGED <<info, temp_c, dew_c, remark_parts>>
    /\ UNCHANGED <<handler_vars, metar, icao, parts, cavok_found, cloud_layers>>

FinalSection ==
    /\ pc = "final"
    /\ IF ~HasPart
       THEN /\ pc' = "done"
            /\ UNCHANGED <<info, i, iters, temp_c, dew_c, remark_parts>>
       ELSE LET part == Part(i)
                temp == ParseTemperature(part)
            IN  /\ i' = i + 1
                /\ iters' = iters + 1
                /\ IF temp # None
                   THEN /\ info' = [info EXCEPT
                              !.temperature = FormatTemperature(temp[1].temp_c),
                              !.dewpoint = FormatTemperature(temp[1].dew_c)]
                        /\ temp_c' = Some(temp[1].temp_c)
                        /\ dew_c' = Some(temp[1].dew_c)
                        /\ pc' = "final"
                        /\ UNCHANGED remark_parts
                   ELSE IF starts_with(part, <<"A">>) /\ Len(part) = 5
                   THEN /\ info' = AltimeterInches(info, part)
                        /\ pc' = "final"
                        /\ UNCHANGED <<temp_c, dew_c, remark_parts>>
                   ELSE IF starts_with(part, <<"Q">>) /\ Len(part) = 5
                   THEN /\ info' = AltimeterHpa(info, part)
                        /\ pc' = "final"
                        /\ UNCHANGED <<temp_c, dew_c, remark_parts>>
                   ELSE IF starts_with(part, <<"R", "M", "K">>)
                   THEN /\ remark_parts' = <<>>
                        /\ pc' = "remarks"
                        /\ UNCHANGED <<info, temp_c, dew_c>>
                   ELSE /\ pc' = "final"
                        /\ UNCHANGED <<info, temp_c, dew_c, remark_parts>>
    /\ UNCHANGED <<handler_vars, metar, icao, parts, cavok_found, cloud_layers>>

\* format!("{:.1}", t as f32 / 10.0) of a value in tenths.
FormatTenths(t) ==
    LET a == IF t < 0 THEN -t ELSE t
    IN  (IF t < 0 THEN "-" ELSE "") \o ToString(a \div 10) \o "."
        \o ToString(a % 10)

\* The fragments one remark token adds.
Remark(remark) ==
    IF starts_with(remark, <<"A", "O">>) THEN <<"Automated station">>
    ELSE IF starts_with(remark, <<"R", "A", "E">>)
    THEN LET min == parse_u32(Slice(remark, 3, Len(remark)))
         IN  IF min # None
             THEN <<"Rain ended at " \o ToString(min[1])
                    \o " minutes past the hour">>
             ELSE <<>>
    ELSE IF starts_with(remark, <<"P">>) /\ Len(remark) > 1
    THEN LET precip == parse_f32(Tail(remark))
         IN  IF precip = None THEN <<>>
             ELSE IF precip[1].n = 0
             THEN <<"No precipitation in past hour">>
             ELSE <<"Precipitation: "
                    \o DisplayF32([precip[1] EXCEPT !.k = @ + 2])
                    \o " inches">>
    ELSE IF starts_with(remark, <<"T">>) /\ Len(remark) > 1
            /\ contains(remark, <<"/">>)
    THEN LET temp_parts == split(Tail(remark), "/")
             temp_int == parse_i32(temp_parts[1])
             dew_int == parse_i32(temp_parts[2])
         IN  IF Len(temp_parts) = 2 /\ temp_int # None /\ dew_int # None
             THEN <<"Precise temperature: " \o FormatTenths(temp_int[1])
                    \o "°C / " \o FormatTenths(dew_int[1]) \o "°C">>
             ELSE <<>>
    ELSE IF remark = <<"$">>
    THEN <<"Maintenance needed on automated station">>
    ELSE <<>>

\* A remarks loop after which the final section resumes.
RemarksResume ==
    /\ pc = "remarks"
    /\ IF HasPart /\ Part(i) # <<"$">>
       THEN /\ remark_parts' = remark_parts \o Remark(Part(i))
            /\ i' = i + 1
            /\ iters' = iters + 1
            /\ pc' = "remarks"
            /\ UNCHANGED info
       ELSE /\ info' = IF remark_parts # <<>>
                       THEN [info EXCEPT !.remarks = join(remark_parts, ". ")]
                       ELSE info
            /\ pc' = "final"
            /\ UNCHANGED <<remark_parts, i, iters>>
    /\ UNCHANGED <<handler_vars, metar, icao, parts, cavok_found, cloud_layers, temp_c,
                   dew_c>>

Remarks ==
    /\ pc = "remarks"
    /\ IF HasPart /\ Part(i) # <<"$">>
       THEN /\ remark_parts' = remark_parts \o Remark(Part(i))
            /\ i' = i + 1
            /\ iters' = iters + 1
            /\ pc' = "remarks"
            /\ UNCHANGED info
       ELSE /\ info' = IF remark_parts # <<>>
                       THEN [info EXCEPT !.remarks = join(remark_parts, ". ")]
                       ELSE info
            /\ pc' = "done"
            /\ UNCHANGED <<remark_parts, i, iters>>
    /\ UNCHANGED <<handler_vars, metar, icao, parts, cavok_found, cloud_layers, temp_c,
                   dew_c>>

Next ==
    \/ Start
    \/ ReportType
    \/ Station
    \/ ObservationTime
    \/ Modifiers
    \/ Wind
    \/ Cavok
    \/ Visibility
    \/ Weather
    \/ Clouds
    \/ FinalSection
    \/ Remarks

(***************************************************************************)
(* src/src/handlers.rs: fetch_metar_handler, and src/src/services.rs:      *)
(* fetch_metar.                                                            *)
(***************************************************************************)
\* StatusCode::is_success: 200..=299.
is_success(status) == 200 <= status /\ status <= 299

\* The Result of fetch_metar.
Ok(text) == Some([ok |-> TRUE, text |-> text])

Err == Some([ok |-> FALSE, text |-> <<>>])

\* The handler up to the call of fetch_metar: the code from the query
\* parameter, and the 400 page for a code whose length is not 4.
HandlerEntry ==
    /\ pc = "handler"
    /\ icao' = to_uppercase(trim(params_icao))
    /\ IF len(icao') # 4
       THEN /\ reply' = 400
            /\ pc' = "responded"
       ELSE /\ pc' = "get"
            /\ UNCHANGED reply
    /\ UNCHANGED <<metar, parts, i, info, cavok_found, cloud_layers,
                   remark_parts, temp_c, dew_c, iters, params_icao,
                   response, fetched>>

\* The answers of the weather service: a transport error, or a status with
\* a body that can be read or not.
Responses(statuses, bodies) ==
    {[error |-> TRUE, status |-> 0, text |-> None]}
    \cup {[error |-> FALSE, status |-> st, text |-> t] :
             st \in statuses, t \in {None} \cup {Some(b) : b \in bodies}}

\* fetch_metar: reqwest::get and the status check.
FetchGet(statuses, bodies) ==
    /\ pc = "get"
    /\ \E r \in Responses(statuses, bodies) :
          /\ response' = Some(r)
          /\ IF r.error \/ ~is_success(r.status)
             THEN /\ fetched' = Err
                  /\ pc' = "match"
             ELSE /\ pc' = "text"
                  /\ UNCHANGED fetched
    /\ UNCHANGED <<metar, icao, parts, i, info, cavok_found, cloud_layers,
                   remark_parts, temp_c, dew_c, iters, params_icao, reply>>

\* A fetch that returns an empty body as a success.
FetchTextUnchecked ==
    /\ pc = "text"
    /\ fetched' = IF response[1].text = None THEN Err
                  ELSE Ok(trim(response[1].text[1]))
    /\ pc' = "match"
    /\ UNCHANGED <<metar, icao, parts, i, info, cavok_found, cloud_layers,
                   remark_parts, temp_c, dew_c, iters, params_icao,
                   response, reply>>

\* fetch_metar: the body, the check that it is not empty, and the result.
FetchText ==
    /\ pc = "text"
    /\ fetched' = IF response[1].text = None THEN Err
                  ELSE IF trim(response[1].text[1]) = <<>> THEN Err
                  ELSE Ok(trim(response[1].text[1]))
    /\ pc' = "match"
    /\ UNCHANGED <<metar, icao, parts, i, info, cavok_found, cloud_layers,
                   remark_parts, temp_c, dew_c, iters, params_icao,
                   response, reply>>

\* The match of the handler on the result: the call of parse_metar, or the
\* 500 page.
HandlerMatch ==
    /\ pc = "match"
    /\ IF fetched[1].ok
       THEN /\ metar' = fetched[1].text
            /\ pc' = "start"
            /\ UNCHANGED reply
       ELSE /\ reply' = 500
            /\ pc' = "responded"
            /\ UNCHANGED metar
    /\ UNCHANGED <<icao, parts, i, info, cavok_found, cloud_layers,
                   remark_parts, temp_c, dew_c, iters, params_icao,
                   response, fetched>>

\* The results page, once parse_metar has returned to the handler.
HandlerRespond ==
    /\ pc = "done"
    /\ fetched # None
    /\ reply' = 200
    /\ pc' = "responded"
    /\ UNCHANGED <<metar, icao, parts, i, info, cavok_found, cloud_layers,
                   remark_parts, temp_c, dew_c, iters, params_icao,
                   response, fetched>>

(***************************************************************************)
(* The calls of the model: parse_metar(metar, icao) for every report text  *)
(* and station hint drawn below.                                           *)
(***************************************************************************)
\* The tokens joined by single spaces.
RECURSIVE Join(_)
Join(ts) ==
    IF ts = <<>> THEN <<>>
    ELSE IF Len(ts) = 1 THEN ts[1]
    ELSE ts[1] \o <<" ">> \o Join(Tail(ts))

\* The tokens with a run of whitespace before, between and after them.
RECURSIVE Padded(_)
Padded(ts) ==
    IF ts = <<>> THEN <<" ", "\t", "\n">>
    ELSE <<" ", " ">> \o ts[1] \o <<"\t">> \o Padded(Tail(ts))

\* The longest free tail of tokens of a generated report.
MaxBody == 2

\* The tokens of the generated reports:
\* METAR KJFK 251651Z 25X651Z AUTO VRB03KT VRB VRB05G 27015G25KT
\* 200V250 CAVOK 9999 10SM -RA FEW250 SKC 22/12 M05/M10
\* A3012 Q1015 AXXXX RMK AO2 $
Vocabulary ==
    {<<"M", "E", "T", "A", "R">>, <<"K", "J", "F", "K">>,
     <<"2", "5", "1", "6", "5", "1", "Z">>,
     <<"2", "5", "X", "6", "5", "1", "Z">>, <<"A", "U", "T", "O">>,
     <<"V", "R", "B", "0", "3", "K", "T">>, <<"V", "R", "B">>,
     <<"V", "R", "B", "0", "5", "G">>,
     <<"2", "7", "0", "1", "5", "G", "2", "5", "K", "T">>,
     <<"2", "0", "0", "V", "2", "5", "0">>, <<"C", "A", "V", "O", "K">>,
     <<"9", "9", "9", "9">>, <<"1", "0", "S", "M">>, <<"-", "R", "A">>,
     <<"F", "E", "W", "2", "5", "0">>, <<"S", "K", "C">>,
     <<"2", "2", "/", "1", "2">>, <<"M", "0", "5", "/", "M", "1", "0">>,
     <<"A", "3", "0", "1", "2">>, <<"Q", "1", "0", "1", "5">>,
     <<"A", "X", "X", "X", "X">>, <<"R", "M", "K">>, <<"A", "O", "2">>,
     <<"$">>}

\* What precedes the free tail: nothing, a station, a full report head.
Headers ==
    {<<>>,
     <<<<"K", "J", "F", "K">>>>,
     <<<<"K", "J", "F", "K">>,
       <<"2", "5", "1", "6", "5", "1", "Z">>, <<"2", "7", "0", "1", "5", "K", "T">>>>}

Bodies == UNION {[1..n -> Vocabulary] : n \in 0..MaxBody}

\* The scenarios of the specification.
ScenarioA ==
    Join(<<<<"K", "J", "F", "K">>,
          <<"2", "5", "1", "6", "5", "1", "Z">>,
          <<"2", "7", "0", "1", "5", "G", "2", "5", "K", "T">>,
          <<"1", "0", "S", "M">>,
          <<"F", "E", "W", "2", "5", "0">>,
          <<"2", "2", "/", "1", "2">>,
          <<"A", "3", "0", "1", "2">>,
          <<"R", "M", "K">>,
          <<"A", "O", "2">>>>)

ScenarioB ==
    Join(<<<<"E", "G", "L", "L">>,
          <<"2", "5", "1", "6", "5", "0", "Z">>,
          <<"V", "R", "B", "0", "3", "K", "T">>,
          <<"C", "A", "V", "O", "K">>,
          <<"1", "8", "/", "0", "9">>,
          <<"Q", "1", "0", "1", "5">>>>)

ScenarioC ==
    Join(<<<<"K", "X", "Y", "Z">>,
          <<"2", "5", "1", "6", "5", "0", "Z">>,
          <<"0", "0", "0", "0", "0", "K", "T">>,
          <<"1", "/", "4", "S", "M">>,
          <<"-", "R", "A">>,
          <<"B", "R">>,
          <<"O", "V", "C", "0", "0", "5">>,
          <<"0", "5", "/", "0", "4">>,
          <<"A", "2", "9", "9", "2">>>>)

Scenarios == {ScenarioA, ScenarioB, ScenarioC}

\* Texts of whitespace alone, and texts with runs of whitespace.
WhitespaceReports ==
    {<<>>, <<" ">>, <<" ", "\t", "\n">>}
    \cup {Padded(b) : b \in {b \in Bodies : Len(b) <= 1}}

Reports ==
    {Join(h \o b) : h \in Headers, b \in Bodies}
    \cup Scenarios \cup WhitespaceReports

\* The station hints: one for every text, a second one for the scenarios
\* and for the texts of at most one token (the only ones whose station can
\* be the hint).
Hints(text) ==
    IF Len(split_whitespace(text)) <= 1 \/ text \in Scenarios
    THEN {<<"E", "G", "L", "L">>, <<"K", "J", "F", "K">>}
    ELSE {<<"E", "G", "L", "L">>}

InitWith(texts) ==
    /\ metar \in texts
    /\ icao \in Hints(metar)
    /\ parts = <<>>
    /\ i = 0
    /\ pc = "start"
    /\ info = DefaultInfo
    /\ cavok_found = FALSE
    /\ cloud_layers = <<>>
    /\ remark_parts = <<>>
    /\ temp_c = None
    /\ dew_c = None
    /\ iters = 0
    /\ params_icao = <<>>
    /\ response = None
    /\ fetched = None
    /\ reply = 0

Init == InitWith(Reports)

Spec == Init /\ [][Next]_vars

(***************************************************************************)
(* The unit conversions over their whole range: every four-digit "A"       *)
(* group, and every temperature/dewpoint pair up to MaxCelsius.            *)
(***************************************************************************)
DigitChar(d) == <<"0", "1", "2", "3", "4", "5", "6", "7", "8", "9">>[d + 1]

AltimeterGroup(n) ==
    <<"A", DigitChar(n \div 1000), DigitChar((n \div 100) % 10),
      DigitChar((n \div 10) % 10), DigitChar(n % 10)>>

AltimeterReports ==
    {Join(<<(<<"K", "J", "F", "K">>), AltimeterGroup(n)>>) : n \in 0..9999}

InitAlt == InitWith(AltimeterReports \cup Scenarios)

SpecAlt == InitAlt /\ [][Next]_vars

MaxCelsius == 40

\* A Celsius value as the report writes it: two digits, 'M' for minus.
CelsiusText(c) ==
    IF c < 0 THEN <<"M", DigitChar((-c) \div 10), DigitChar((-c) % 10)>>
    ELSE <<DigitChar(c \div 10), DigitChar(c % 10)>>

TemperatureGroup(c, d) == CelsiusText(c) \o <<"/">> \o CelsiusText(d)

\* The groups of seven characters with the largest values a group can hold:
\* 99999/1, M9999/1, 1/M9999, 1/99999.
WidestTemperatureGroups ==
    {<<"9", "9", "9", "9", "9", "/", "1">>,
     <<"M", "9", "9", "9", "9", "/", "1">>,
     <<"1", "/", "M", "9", "9", "9", "9">>,
     <<"1", "/", "9", "9", "9", "9", "9">>}

TemperatureReports ==
    {Join(<<(<<"K", "J", "F", "K">>), TemperatureGroup(c, d)>>) :
        c \in -MaxCelsius..MaxCelsius, d \in -MaxCelsius..MaxCelsius}
    \cup {Join(<<(<<"K", "J", "F", "K">>), g>>) : g \in WidestTemperatureGroups}

InitTemp == InitWith(TemperatureReports \cup Scenarios)

SpecTemp == InitTemp /\ [][Next]_vars

(***************************************************************************)
(* The groups of one stage over their shapes: after a fixed head of the    *)
(* report, every tail of at most MaxTail tokens of the stage's vocabulary. *)
(***************************************************************************)
MaxTail == 3

Tails(vocabulary, n) == UNION {[1..k -> vocabulary] : k \in 0..n}

\* A wind token, then tokens that are or resemble a variable direction:
\* 27015KT 27015G25KT VRB03KT XXXXXKT, then
\* 200V250 020V050 20V25 1234V5678 20V2 200V25X V2500 2000V 10SM.
WindTokens ==
    {<<"2", "7", "0", "1", "5", "K", "T">>,
     <<"2", "7", "0", "1", "5", "G", "2", "5", "K", "T">>,
     <<"V", "R", "B", "0", "3", "K", "T">>,
     <<"X", "X", "X", "X", "X", "K", "T">>}

VariableTokens ==
    {<<"2", "0", "0", "V", "2", "5", "0">>,
     <<"0", "2", "0", "V", "0", "5", "0">>,
     <<"2", "0", "V", "2", "5">>,
     <<"1", "2", "3", "4", "V", "5", "6", "7", "8">>,
     <<"2", "0", "V", "2">>,
     <<"2", "0", "0", "V", "2", "5", "X">>,
     <<"V", "2", "5", "0", "0">>,
     <<"2", "0", "0", "0", "V">>,
     <<"1", "0", "S", "M">>}

WindReports ==
    {Join(<<(<<"K", "J", "F", "K">>),
            (<<"2", "5", "1", "6", "5", "1", "Z">>), w>> \o t) :
        w \in WindTokens, t \in Tails(VariableTokens, MaxTail - 1)}

InitWind == InitWith(WindReports \cup Scenarios)

SpecWind == InitWind /\ [][Next]_vars

\* The head that brings the cursor to the weather stage.
WeatherHead ==
    <<(<<"K", "J", "F", "K">>), (<<"2", "5", "1", "6", "5", "1", "Z">>),
      (<<"2", "7", "0", "1", "5", "K", "T">>), (<<"9", "9", "9", "9">>)>>

\* Tokens that are, resemble or end a run of weather groups:
\* -RA +TSRA BR VCSH TEMPO +XX XX FEW250 VVRA 1/4RA.
WeatherTokens ==
    {<<"-", "R", "A">>, <<"+", "T", "S", "R", "A">>, <<"B", "R">>,
     <<"V", "C", "S", "H">>, <<"T", "E", "M", "P", "O">>,
     <<"+", "X", "X">>, <<"X", "X">>,
     <<"F", "E", "W", "2", "5", "0">>, <<"V", "V", "R", "A">>,
     <<"1", "/", "4", "R", "A">>}

WeatherReports ==
    {Join(WeatherHead \o t) : t \in Tails(WeatherTokens, MaxTail)}

InitWeather == InitWith(WeatherReports \cup Scenarios)

SpecWeather == InitWeather /\ [][Next]_vars

\* Tokens the cloud loop adds a layer for, skips or stops at: SKC NCD
\* FEW250 OVC005CB VV002 VV VV/// XX A3012 22/12 RMK NOSIG 12345/78.
CloudTokens ==
    {<<"S", "K", "C">>, <<"N", "C", "D">>,
     <<"F", "E", "W", "2", "5", "0">>,
     <<"O", "V", "C", "0", "0", "5", "C", "B">>,
     <<"V", "V", "0", "0", "2">>, <<"V", "V">>, <<"V", "V", "/", "/", "/">>,
     <<"X", "X">>, <<"A", "3", "0", "1", "2">>, <<"2", "2", "/", "1", "2">>,
     <<"R", "M", "K">>, <<"N", "O", "S", "I", "G">>,
     <<"1", "2", "3", "4", "5", "/", "7", "8">>}

CloudReports ==
    {Join(WeatherHead \o t) : t \in Tails(CloudTokens, MaxTail)}

InitClouds == InitWith(CloudReports \cup Scenarios)

SpecClouds == InitClouds /\ [][Next]_vars

\* Tokens of the final section and of the remarks: 22/12 A3012 Q1015 RMK
\* RMK/1 A/012 Q/123 AO2 $ RAE42 T01/02 XX/1.
FinalTokens ==
    {<<"2", "2", "/", "1", "2">>, <<"A", "3", "0", "1", "2">>,
     <<"Q", "1", "0", "1", "5">>, <<"R", "M", "K">>,
     <<"R", "M", "K", "/", "1">>, <<"A", "/", "0", "1", "2">>,
     <<"Q", "/", "1", "2", "3">>, <<"A", "O", "2">>, <<"$">>,
     <<"R", "A", "E", "4", "2">>, <<"T", "0", "1", "/", "0", "2">>,
     <<"X", "X", "/", "1">>}

FinalReports ==
    {Join(WeatherHead \o t) : t \in Tails(FinalTokens, MaxTail)}

InitFinal == InitWith(FinalReports \cup Scenarios)

SpecFinal == InitFinal /\ [][Next]_vars

\* The weather groups of the decoder's grammar: an intensity or none, at
\* most MaxCodes descriptors, at most MaxCodes phenomena, and a rest.
MaxCodes == 2

Runs(codes) == UNION {[1..k -> codes] : k \in 0..MaxCodes}

RECURSIVE Flat(_)
Flat(ts) == IF ts = <<>> THEN <<>> ELSE ts[1] \o Flat(Tail(ts))

GroupTokens ==
    {int \o Flat(des) \o Flat(phen) \o rest :
        int \in {<<>>, <<"-">>, <<"+">>, <<"V", "C">>},
        des \in Runs({<<"S", "H">>, <<"T", "S">>}),
        phen \in Runs({<<"R", "A">>, <<"S", "N">>, <<"P", "O">>}),
        rest \in {<<>>, <<"X">>, <<"1">>, <<"F", "Z">>}}
    \ {<<>>}

GroupReports == {Join(Append(WeatherHead, t)) : t \in GroupTokens}

InitGroups == InitWith(GroupReports \cup Scenarios)

SpecGroups == InitGroups /\ [][Next]_vars

(***************************************************************************)
(* The requests GET /metar?icao=..., for every query parameter of at most  *)
(* MaxQuery characters and every answer of the weather service below.      *)
(***************************************************************************)
MaxQuery == 5

QueryChars == {" ", "k", "K", "é"}

Queries == UNION {[1..n -> QueryChars] : n \in 0..MaxQuery}

Statuses == {200, 404, 500}

FetchBodies ==
    {<<>>, <<" ", "\n">>, ScenarioA \o <<"\n">>, <<"\n">> \o ScenarioB,
     <<"K", "J", "F", "K", " ", "V", "R", "B">>}

InitHandler ==
    /\ params_icao \in Queries
    /\ response = None
    /\ fetched = None
    /\ reply = 0
    /\ metar = <<>>
    /\ icao = <<>>
    /\ parts = <<>>
    /\ i = 0
    /\ pc = "handler"
    /\ info = DefaultInfo
    /\ cavok_found = FALSE
    /\ cloud_layers = <<>>
    /\ remark_parts = <<>>
    /\ temp_c = None
    /\ dew_c = None
    /\ iters = 0

NextHandler ==
    \/ HandlerEntry
    \/ FetchGet(Statuses, FetchBodies)
    \/ FetchText
    \/ HandlerMatch
    \/ HandlerRespond
    \/ Start
    \/ ReportType
    \/ Station
    \/ ObservationTime
    \/ Modifiers
    \/ Wind
    \/ Cavok
    \/ Visibility
    \/ Weather
    \/ Clouds
    \/ FinalSection
    \/ Remarks

SpecHandler == InitHandler /\ [][NextHandler]_vars

(***************************************************************************)
(* The claims.                                                             *)
(***************************************************************************)
Returned == pc = "done"

\* C1: parse_metar is total: for every report text and station hint the
\* call returns a report and never panics or aborts.
C1_Total == pc # "panic"

\* C2: in every state of parse_metar the cursor satisfies
\* 0 <= i <= number of tokens, and no step decreases it.
C2_CursorBounded ==
    [](0 <= i /\ i <= Len(parts)) /\ [][i' >= i]_vars

C2_Witness == Returned /\ Len(parts) >= 4 /\ i = Len(parts)

\* The stages that are loops.
LoopStages == {"modifiers", "weather", "clouds", "final", "remarks"}

\* The stages that remain to run, counted from the end of the call.
Rank(stage) ==
    CASE stage = "start" -> 12
      [] stage = "report_type" -> 11
      [] stage = "station" -> 10
      [] stage = "time" -> 9
      [] stage = "modifiers" -> 8
      [] stage = "wind" -> 7
      [] stage = "cavok" -> 6
      [] stage = "visibility" -> 5
      [] stage = "weather" -> 4
      [] stage = "clouds" -> 3
      [] stage = "final" -> 2
      [] stage = "remarks" -> 1
      [] OTHER -> 0

\* What is left to do: the stages to come, then the tokens to come.
Variant == Rank(pc) * (Len(metar) + 1) + (Len(parts) - i)

\* C3: parse_metar terminates: every evaluation of a loop either advances
\* the cursor by one token and stays in the loop, or leaves the loop; the
\* iterations that stay in a loop number at most the tokens; and every
\* step of the call lowers a natural-valued measure of the work left.
C3_Terminates ==
    [][/\ pc \in LoopStages =>
             \/ pc' = pc /\ i' = i + 1 /\ iters' = iters + 1
             \/ pc' # pc /\ pc' \notin {"start", "report_type"}
       /\ iters' <= Len(parts')
       /\ 0 <= Variant' /\ Variant' < Variant]_vars

C3_Witness == Returned /\ iters >= 4 /\ remark_parts # <<>>

\* C5: when the token at the cursor after the time, modifier and wind
\* stages is "CAVOK", the returned report has the three fixed CAVOK texts,
\* whatever tokens follow.
C5_CavokExclusive ==
    (Returned /\ cavok_found) =>
        /\ info.visibility = "10 kilometers or more"
        /\ info.clouds = "No clouds below 5,000 feet"
        /\ info.weather = "None significant"

C5_Witness ==
    /\ Returned
    /\ cavok_found
    /\ \E k \in 1..(Len(parts) - 1) :
           /\ parts[k] = <<"C", "A", "V", "O", "K">>
           /\ parts[k + 1] \in {<<"-", "R", "A">>,
                                <<"F", "E", "W", "2", "5", "0">>,
                                <<"1", "0", "S", "M">>}

OnlyWhitespace(text) == \A k \in 1..Len(text) : text[k] \in Whitespace

\* C6: for a text that is empty or whitespace alone the returned report
\* has the hint as station, the text as raw, and every other field absent.
C6_EmptyReport ==
    (Returned /\ OnlyWhitespace(metar)) =>
        info = [DefaultInfo EXCEPT !.station = Str(icao), !.raw = Str(metar)]

C6_Witness == Returned /\ OnlyWhitespace(metar) /\ Len(metar) >= 2

\* C7: in every returned report the three zulu fields are all present
\* exactly when date_time is non-empty, and altimeter_hpa, altimeter_inches
\* and a non-empty altimeter_default_unit exactly when altimeter is.
C7_NumericIffText ==
    Returned =>
        /\ (info.zulu_day # None /\ info.zulu_hour # None
            /\ info.zulu_minute # None) <=> (info.date_time # "")
        /\ (info.altimeter_hpa # None /\ info.altimeter_inches # None
            /\ info.altimeter_default_unit # "") <=> (info.altimeter # "")

C7_Witness ==
    /\ Returned
    /\ info.date_time # ""
    /\ info.altimeter_default_unit = "hpa"
    /\ info.altimeter_inches # None

\* A four-digit "A" group.
InchesGroup(part) ==
    Len(part) = 5 /\ part[1] = "A" /\ AllDigits(Tail(part))

\* x is the f32 nearest to n / 100.
NearestHundredth(x, n) ==
    IF n = 0 THEN x.m = 0
    ELSE /\ ~x.neg /\ x.m >= Pow2(23) /\ x.m < Pow2(24) /\ x.e < 0
         /\ 100 * x.m - n * Pow2(-x.e) <= 50
         /\ n * Pow2(-x.e) - 100 * x.m <= 50

\* h is the f32 p without its fraction.
TruncationOf(h, p) ==
    IF p.m = 0 THEN h = 0
    ELSE IF p.e >= 0 THEN h = p.m * Pow2(p.e)
    ELSE h * Pow2(-p.e) <= p.m /\ p.m < (h + 1) * Pow2(-p.e)

\* h is the integer nearest to the f32 p.
NearestIntegerTo(h, p) ==
    IF p.m = 0 THEN h = 0
    ELSE IF p.e >= 0 THEN h = p.m * Pow2(p.e)
    ELSE /\ 2 * (p.m - h * Pow2(-p.e)) <= Pow2(-p.e)
         /\ 2 * (h * Pow2(-p.e) - p.m) <= Pow2(-p.e)

\* The step of the final section over a four-digit "A" group NNNN.
InchesStep == pc = "final" /\ HasPart /\ InchesGroup(Part(i))

\* C8 as stated: after an "A" group NNNN, altimeter_inches is NNNN/100, the
\* unit is "inches" and altimeter_hpa is inches * 33.8639 rounded to the
\* nearest integer.
C8_Rounded ==
    [][InchesStep =>
          /\ info'.altimeter_default_unit = "inches"
          /\ NearestHundredth(info'.altimeter_inches[1],
                              DigitsValue(Tail(Part(i)), 0))
          /\ NearestIntegerTo(info'.altimeter_hpa[1],
                              F32Mul(info'.altimeter_inches[1], HpaPerInch))
      ]_vars

\* C8, amended: after an "A" group NNNN, altimeter_inches is NNNN/100 (the
\* nearest f32), the unit is "inches" and altimeter_hpa is the f32 product
\* inches * 33.8639 truncated toward zero.
C8_Truncated ==
    [][InchesStep =>
          /\ info'.altimeter_default_unit = "inches"
          /\ NearestHundredth(info'.altimeter_inches[1],
                              DigitsValue(Tail(Part(i)), 0))
          /\ TruncationOf(info'.altimeter_hpa[1],
                          F32Mul(info'.altimeter_inches[1], HpaPerInch))
      ]_vars

C8_Witness ==
    /\ Returned
    /\ info.altimeter = "30.12 inches of mercury"
    /\ info.altimeter_hpa = Some(1019)
    /\ info.altimeter_default_unit = "inches"

\* q is a / b truncated toward zero (b > 0).
TruncatedQuotient(q, a, b) ==
    IF a >= 0 THEN q * b <= a /\ a < (q + 1) * b
    ELSE (q - 1) * b < a /\ a <= q * b

\* "{C}°C ({F}°F)" with F = C * 9 / 5 + 32, the division truncating.
TruncatingText(c) ==
    LET q == CHOOSE q \in ((9 * c) \div 5)..(((9 * c) \div 5) + 1) :
                 TruncatedQuotient(q, 9 * c, 5)
    IN  ToString(c) \o "°C (" \o ToString(q + 32) \o "°F)"

\* C9: the Fahrenheit value is C * 9 / 5 + 32 with the division truncating
\* toward zero, for negative values too, and temperature and dewpoint are
\* both formatted "{C}°C ({F}°F)" with it.
C9_TruncatingFahrenheit ==
    /\ temp_c # None => info.temperature = TruncatingText(temp_c[1])
    /\ dew_c # None => info.dewpoint = TruncatingText(dew_c[1])

C9_Witness ==
    /\ Returned
    /\ temp_c = Some(-1)
    /\ dew_c = Some(-7)
    /\ info.temperature = "-1°C (31°F)"

\* C10 as stated: a Celsius value of -5 gives a Fahrenheit value of -9.
C10_MinusNine ==
    /\ temp_c = Some(-5) => info.temperature = "-5°C (-9°F)"
    /\ dew_c = Some(-5) => info.dewpoint = "-5°C (-9°F)"

\* C10, amended: a Celsius value of -5 gives a Fahrenheit value of 23.
C10_TwentyThree ==
    /\ temp_c = Some(-5) => info.temperature = "-5°C (23°F)"
    /\ dew_c = Some(-5) => info.dewpoint = "-5°C (23°F)"

C10_Witness == Returned /\ temp_c = Some(-5) /\ dew_c = Some(-5)

\* C11: Scenario A, "KJFK 251651Z 27015G25KT 10SM FEW250 22/12 A3012 RMK
\* AO2" with the hint "KJFK", returns the station, time, wind, visibility,
\* weather, clouds, temperature, dewpoint, altimeter (1019 hPa) and remarks
\* the specification lists.
C11_ScenarioA ==
    (Returned /\ metar = ScenarioA /\ icao = <<"K", "J", "F", "K">>) =>
        /\ info.station = "KJFK"
        /\ info.date_time = "Day 25, 16:51Z"
        /\ info.wind = "270 degrees (W) at 15 knots, gusting to 25 knots"
        /\ info.visibility = "10 statute miles"
        /\ info.weather = "None"
        /\ info.clouds = "Few at 25000 feet"
        /\ info.temperature = "22°C (71°F)"
        /\ info.dewpoint = "12°C (53°F)"
        /\ info.altimeter = "30.12 inches of mercury"
        /\ info.altimeter_hpa = Some(1019)
        /\ info.remarks = "Automated station"

C11_Witness ==
    /\ Returned
    /\ metar = ScenarioA
    /\ icao = <<"K", "J", "F", "K">>
    /\ i = 9

\* C12: Scenario B, "EGLL 251650Z VRB03KT CAVOK 18/09 Q1015", returns the
\* variable wind, the three CAVOK texts and the altimeter in hectopascals
\* (1015, unit "hpa"), and the temperature group after CAVOK is decoded.
C12_ScenarioB ==
    (Returned /\ metar = ScenarioB) =>
        /\ info.wind = "Variable at 3 knots"
        /\ info.visibility = "10 kilometers or more"
        /\ info.weather = "None significant"
        /\ info.clouds = "No clouds below 5,000 feet"
        /\ info.altimeter = "1015 hectopascals"
        /\ info.altimeter_hpa = Some(1015)
        /\ info.altimeter_default_unit = "hpa"
        /\ info.temperature = "18°C (64°F)"
        /\ info.dewpoint = "9°C (48°F)"

C12_Witness == Returned /\ metar = ScenarioB /\ cavok_found /\ i = 6

\* C13: Scenario C, "KXYZ 251650Z 00000KT 1/4SM -RA BR OVC005 05/04 A2992",
\* returns no visibility, the weather "Light rain, mist" and the clouds
\* "Overcast at 500 feet".
C13_ScenarioC ==
    (Returned /\ metar = ScenarioC) =>
        /\ info.visibility = ""
        /\ info.weather = "Light rain, mist"
        /\ info.clouds = "Overcast at 500 feet"

C13_Witness == Returned /\ metar = ScenarioC /\ ~cavok_found /\ i = 9

\* The stages of parse_metar, its return and its abort.
Decoding ==
    pc \in {"start", "report_type", "station", "time", "modifiers", "wind",
            "cavok", "visibility", "weather", "clouds", "final", "remarks",
            "done", "panic"}

\* The weather service answered with a success status and a body that is
\* not empty once trimmed.
SuccessPayload ==
    /\ response # None
    /\ ~response[1].error
    /\ response[1].status >= 200 /\ response[1].status <= 299
    /\ response[1].text # None
    /\ trim(response[1].text[1]) # <<>>

\* C14: in fetch_metar_handler parse_metar is invoked only after fetch_metar
\* succeeded, which takes a success status and a body that is not empty
\* once trimmed; on a transport error, another status or an empty body
\* parse_metar is never called and the answer is the error page, 500.
C14_DecodeAfterFetch ==
    /\ (fetched # None /\ fetched[1].ok) =>
           SuccessPayload /\ fetched[1].text = trim(response[1].text[1])
    /\ (Decoding \/ info # DefaultInfo) =>
           /\ fetched # None /\ fetched[1].ok
           /\ metar = fetched[1].text
    /\ (pc = "responded" /\ response # None /\ ~SuccessPayload) =>
           reply = 500 /\ info = DefaultInfo /\ parts = <<>>

C14_Witness ==
    /\ pc = "responded"
    /\ reply = 500
    /\ response # None
    /\ response[1].status = 200
    /\ response[1].text = Some(<<" ", "\n">>)

\* C15: fetch_metar_handler trims and upper-cases the icao parameter; a
\* code that is not exactly 4 characters long is answered 400 with neither
\* a fetch nor a decode, and a fetch is started only for a 4-character code.
C15_FourCharacters ==
    pc # "handler" =>
        /\ icao = to_uppercase(trim(params_icao))
        /\ Len(icao) # 4 =>
               /\ pc = "responded" /\ reply = 400
               /\ response = None /\ fetched = None
               /\ info = DefaultInfo
        /\ (pc = "get" \/ response # None) => Len(icao) = 4

\* C16: the raw field of the report is the text passed to parse_metar,
\* unchanged, and no stage modifies it, the text or the token sequence.
C16_RawUntouched ==
    /\ [](pc # "start" => /\ info.raw = Str(metar)
                          /\ parts = split_whitespace(metar))
    /\ [][pc # "start" =>
            info'.raw = info.raw /\ parts' = parts /\ metar' = metar]_vars

C16_Witness ==
    /\ Returned
    /\ Len(parts) = 1
    /\ metar[1] = " "
    /\ metar[Len(metar)] = "\n"
    /\ Len(metar) > Len(trim(metar)) + 4

\* A token of the shape of an observation time whose digits fail to parse.
UnparsedTime(dt) ==
    /\ Len(dt) = 7
    /\ ends_with(dt, <<"Z">>)
    /\ \/ parse_u32(Slice(dt, 0, 2)) = None
       \/ parse_u32(Slice(dt, 2, 4)) = None
       \/ parse_u32(Slice(dt, 4, 6)) = None

TimeAbsent(inf) ==
    /\ inf.date_time = ""
    /\ inf.zulu_day = None /\ inf.zulu_hour = None /\ inf.zulu_minute = None

\* C17 as stated: a 7-character token ending in 'Z' whose digits fail to
\* parse leaves date_time and the zulu fields absent and is not consumed.
C17_TimeNotConsumed ==
    [][(pc = "time" /\ HasPart /\ UnparsedTime(Part(i))) =>
          TimeAbsent(info') /\ i' = i]_vars

\* C17, amended: such a token leaves date_time and the zulu fields absent
\* and is consumed: the cursor advances by one.
C17_TimeConsumed ==
    [][(pc = "time" /\ HasPart /\ UnparsedTime(Part(i))) =>
          TimeAbsent(info') /\ i' = i + 1]_vars

C17_Witness ==
    /\ Returned
    /\ Len(parts) = 3
    /\ parts[1] = <<"K", "J", "F", "K">>
    /\ UnparsedTime(parts[2])
    /\ parts[3] = <<"V", "R", "B", "0", "3", "K", "T">>
    /\ info.date_time = ""
    /\ info.wind = "Variable at 3 knots"

\* "VRB" and a two-digit speed.
VariableShape(wind) ==
    /\ starts_with(wind, <<"V", "R", "B">>)
    /\ Len(wind) >= 5
    /\ wind[4] \in Digits /\ wind[5] \in Digits

\* Length at least 7, "KT" at the end, three digits and two digits.
DirectionalShape(wind) ==
    /\ Len(wind) >= 7
    /\ ends_with(wind, <<"K", "T">>)
    /\ \A k \in 1..5 : wind[k] \in Digits

\* C18: in the wind stage a token of neither shape leaves wind absent and
\* the cursor unchanged, and the cursor moves exactly when wind is set.
C18_WindFrame ==
    [][pc = "wind" =>
          /\ pc' = "cavok"
          /\ (HasPart /\ ~VariableShape(Part(i))
               /\ ~DirectionalShape(Part(i))) =>
                 info'.wind = "" /\ i' = i
          /\ (i' # i) <=> (info'.wind # "")]_vars

\* C19 as stated: in the visibility stage without CAVOK a token from which
\* no visibility is derived leaves the cursor unchanged, "1/4SM" included.
C19_AbsentNotConsumed ==
    [][(pc = "visibility" /\ ~cavok_found /\ HasPart
        /\ info'.visibility = "") => i' = i]_vars

\* C19, amended: a token that is not "9999", does not end in "SM" and is
\* not an unsigned integer leaves visibility absent and the cursor
\* unchanged; a token ending in "SM" is consumed whether its prefix is a
\* number or not, and leaves visibility absent when it is not.
C19_SmConsumed ==
    [][(pc = "visibility" /\ ~cavok_found /\ HasPart) =>
          LET vis == Part(i)
              sm == ends_with(vis, <<"S", "M">>)
          IN  /\ (vis # <<"9", "9", "9", "9">> /\ ~sm
                   /\ parse_u32(vis) = None) =>
                     info'.visibility = "" /\ i' = i
              /\ sm => i' = i + 1
              /\ (sm /\ parse_f32(Slice(vis, 0, Len(vis) - 2)) = None) =>
                     info'.visibility = ""]_vars

C19_Witness ==
    /\ pc = "weather"
    /\ metar = ScenarioC
    /\ Part(i - 1) = <<"1", "/", "4", "S", "M">>
    /\ info.visibility = ""

ReportTypes == {<<"M", "E", "T", "A", "R">>, <<"S", "P", "E", "C", "I">>}

\* The tokens that follow the optional report-type token.
AfterReportType ==
    IF parts # <<>> /\ parts[1] \in ReportTypes THEN Tail(parts) ELSE parts

\* C20: at most one leading "METAR" or "SPECI" is consumed, then exactly
\* one token, whatever it is, becomes the station in place of the hint;
\* the station is the hint when no token is left for it.
C20_StationToken ==
    /\ (pc = "station" /\ parts # <<>>) =>
           i = (IF parts[1] \in ReportTypes THEN 1 ELSE 0)
    /\ (pc = "time" \/ Returned) =>
           /\ info.station = (IF AfterReportType = <<>> THEN Str(icao)
                               ELSE Str(AfterReportType[1]))
           /\ pc = "time" => i = Len(parts) - Len(AfterReportType)
                                 + (IF AfterReportType = <<>> THEN 0 ELSE 1)

C20_Witness ==
    /\ Returned
    /\ Len(parts) = 2
    /\ parts[1] \in ReportTypes
    /\ parts[2] \in ReportTypes
    /\ info.station = "METAR"

\* The form DDDVDDD: two 3-digit directions separated by 'V'.
ThreeVThree(t) ==
    /\ Len(t) = 7
    /\ t[4] = "V"
    /\ \A k \in {1, 2, 3, 5, 6, 7} : t[k] \in Digits

\* What the code takes for a variable direction: a 'V', at least five
\* characters, and an unsigned integer on each side of the first 'V'.
NumberVNumber(t) ==
    /\ Len(t) >= 5
    /\ \E v \in 1..Len(t) :
          /\ t[v] = "V"
          /\ \A k \in 1..(v - 1) : t[k] # "V"
          /\ parse_u32(SubSeq(t, 1, v - 1)) # None
          /\ parse_u32(SubSeq(t, v + 1, Len(t))) # None

\* ", variable between X and Y degrees" for the token t.
VariableClause(t) ==
    LET v == CHOOSE v \in 1..Len(t) :
                 t[v] = "V" /\ \A k \in 1..(v - 1) : t[k] # "V"
    IN  ", variable between "
        \o ToString(parse_u32(SubSeq(t, 1, v - 1))[1]) \o " and "
        \o ToString(parse_u32(SubSeq(t, v + 1, Len(t)))[1]) \o " degrees"

\* A step of the wind stage that recognizes a directional wind.
DirectionalStep ==
    /\ pc = "wind" /\ HasPart
    /\ ~starts_with(Part(i), <<"V", "R", "B">>)
    /\ info'.wind # ""

\* C21 as stated: after a directional wind the next token is consumed and
\* the clause appended exactly when it has the form DDDVDDD.
C21_ThreeVThree ==
    [][DirectionalStep =>
          IF i + 1 < Len(parts) /\ ThreeVThree(Part(i + 1))
          THEN /\ i' = i + 2
               /\ info'.wind = DirectionalWind(Part(i)).wind
                                \o VariableClause(Part(i + 1))
          ELSE /\ i' = i + 1
               /\ info'.wind = DirectionalWind(Part(i)).wind]_vars

\* C21, amended: ... exactly when it holds a 'V', is at least five
\* characters long and has an unsigned integer on each side of the first
\* 'V' (DDDVDDD is one such form, "20V25" another).
C21_NumberVNumber ==
    [][DirectionalStep =>
          IF i + 1 < Len(parts) /\ NumberVNumber(Part(i + 1))
          THEN /\ i' = i + 2
               /\ info'.wind = DirectionalWind(Part(i)).wind
                                \o VariableClause(Part(i + 1))
          ELSE /\ i' = i + 1
               /\ info'.wind = DirectionalWind(Part(i)).wind]_vars

C21_Witness ==
    /\ Returned
    /\ Len(parts) >= 5
    /\ parts[3] = <<"2", "7", "0", "1", "5", "K", "T">>
    /\ parts[4] = <<"2", "0", "V", "2", "5">>
    /\ parts[5] = <<"2", "0", "0", "V", "2", "5", "0">>
    /\ info.wind =
         "270 degrees (W) at 15 knots, variable between 20 and 25 degrees"

\* A token qualifies as a weather group.
Qualifies(t) ==
    \/ t[1] \in {"-", "+"}
    \/ (Len(t) >= 2 /\ t[1] = "V" /\ t[2] = "C")
    \/ is_weather_code(t)

CloudPrefixed(t) ==
    \E p \in {<<"S", "K", "C">>, <<"C", "L", "R">>, <<"F", "E", "W">>,
               <<"S", "C", "T">>, <<"B", "K", "N">>, <<"O", "V", "C">>,
               <<"V", "V">>} : starts_with(t, p)

\* C22: without CAVOK the weather stage consumes tokens only while each
\* qualifies as a weather group and stops at the first that does not,
\* without consuming it; a token with a cloud prefix always stops it; and
\* weather is "None" when no description was collected.
C22_WeatherRun ==
    [][(pc = "weather" /\ ~cavok_found) =>
          /\ IF HasPart /\ Qualifies(Part(i))
             THEN i' = i + 1 /\ pc' = "weather"
             ELSE /\ i' = i /\ pc' = "clouds"
                  /\ info'.weather = (IF info.weather = "" THEN "None"
                                       ELSE info.weather)
          /\ (HasPart /\ CloudPrefixed(Part(i))) =>
                 i' = i /\ pc' = "clouds"]_vars

C22_Witness ==
    /\ Returned
    /\ Len(parts) = 7
    /\ parts[5] = <<"-", "R", "A">>
    /\ parts[6] = <<"X", "X">>
    /\ parts[7] = <<"B", "R">>
    /\ info.weather = "Light rain"

\* The tables of the grammar: code, phrase.
GrammarIntensities ==
    {<<(<<"-">>), "Light">>, <<(<<"+">>), "Heavy">>,
     <<(<<"V", "C">>), "In vicinity">>}

GrammarDescriptors ==
    {<<(<<"M", "I">>), "Shallow">>, <<(<<"B", "C">>), "Patches">>,
     <<(<<"D", "R">>), "Low drifting">>, <<(<<"B", "L">>), "Blowing">>,
     <<(<<"S", "H">>), "Showers">>, <<(<<"T", "S">>), "Thunderstorm">>,
     <<(<<"F", "Z">>), "Freezing">>, <<(<<"P", "R">>), "Partial">>}

GrammarPhenomena ==
    {<<(<<"D", "Z">>), "drizzle">>, <<(<<"R", "A">>), "rain">>,
     <<(<<"S", "N">>), "snow">>, <<(<<"S", "G">>), "snow grains">>,
     <<(<<"I", "C">>), "ice crystals">>, <<(<<"G", "R">>), "hail">>,
     <<(<<"P", "L">>), "ice pellets">>, <<(<<"H", "Z">>), "haze">>,
     <<(<<"F", "U">>), "smoke">>, <<(<<"F", "G">>), "fog">>,
     <<(<<"B", "R">>), "mist">>, <<(<<"S", "Q">>), "squalls">>,
     <<(<<"F", "C">>), "funnel cloud">>,
     <<(<<"G", "S">>), "small hail/snow pellets">>,
     <<(<<"U", "P">>), "unknown precipitation">>,
     <<(<<"V", "A">>), "volcanic ash">>,
     <<(<<"D", "U">>), "widespread dust">>, <<(<<"S", "A">>), "sand">>,
     <<(<<"P", "O">>), "dust/sand whirls">>, <<(<<"S", "S">>), "sandstorm">>,
     <<(<<"D", "S">>), "dust storm">>, <<(<<"P", "Y">>), "spray">>}

\* The entries of a table whose code starts the text t.
Leading(table, t) == {e \in table : starts_with(t, e[1])}

\* The phrases of the longest run of codes of the table at the start of t,
\* and what is left of t after them: <<phrases, rest>>.
RECURSIVE GrammarRun(_, _)
GrammarRun(table, t) ==
    IF Leading(table, t) = {} THEN <<(<<>>), t>>
    ELSE LET e == CHOOSE e \in Leading(table, t) : TRUE
             r == GrammarRun(table, SubSeq(t, Len(e[1]) + 1, Len(t)))
         IN  <<(<<e[2]>>) \o r[1], r[2]>>

\* The text of the grammar for a token: the intensity phrase, the
\* descriptor phrases, each followed by a space, then the phenomenon names
\* one after the other, without the space a phrase leaves at the end.
GrammarText(t) ==
    LET int == IF Leading(GrammarIntensities, t) = {} THEN <<(<<>>), t>>
               ELSE LET e == CHOOSE e \in Leading(GrammarIntensities, t) :
                                 TRUE
                    IN  <<(<<e[2]>>), SubSeq(t, Len(e[1]) + 1, Len(t))>>
        des == GrammarRun(GrammarDescriptors, int[2])
        phen == GrammarRun(GrammarPhenomena, des[2])
        phrases == int[1] \o des[1]
        names == join(phen[1], "")
    IN  IF phrases = <<>> THEN names
        ELSE IF names = "" THEN join(phrases, " ")
        ELSE join(phrases, " ") \o " " \o names

\* C23: decode_weather follows the grammar [intensity] [descriptor]*
\* phenomenon+: the text of a weather group is the intensity phrase, the
\* phrase of each leading descriptor and the name of each following
\* phenomenon, in token order, up to the first unrecognized character,
\* trimmed, and possibly empty.
C23_Grammar ==
    /\ [](Len(parts) = 5 => decode_weather(parts[5]) = GrammarText(parts[5]))
    /\ [][(pc = "weather" /\ pc' = "weather" /\ info.weather = "") =>
             info'.weather = GrammarText(Part(i))]_vars

C23_Witness ==
    /\ Returned
    /\ Len(parts) = 5
    /\ parts[5] = <<"V", "C", "T", "S", "S", "H", "R", "A", "S", "N", "F",
                    "Z">>
    /\ info.weather = "In vicinity Thunderstorm Showers rainsnow"

\* The non-empty descriptions of the longest run of qualifying tokens at
\* the start of ts.
RECURSIVE Entries(_)
Entries(ts) ==
    IF ts = <<>> \/ ~Qualifies(ts[1]) THEN <<>>
    ELSE (IF decode_weather(ts[1]) = "" THEN <<>>
          ELSE <<decode_weather(ts[1])>>) \o Entries(Tail(ts))

\* C30: a qualifying weather token whose description is empty is consumed
\* and adds nothing, so the weather field has no empty entry: it is the
\* non-empty descriptions of the qualifying tokens joined with ", " (or
\* "None" when there is none).
C30_NoEmptyEntry ==
    /\ []((Returned /\ SubSeq(parts, 1, 4) = WeatherHead) =>
            LET entries == Entries(SubSeq(parts, 5, Len(parts)))
            IN  /\ \A k \in 1..Len(entries) : entries[k] # ""
                /\ info.weather = (IF entries = <<>> THEN "None"
                                    ELSE join(entries, ", ")))
    /\ [][(pc = "weather" /\ ~cavok_found /\ HasPart
           /\ Qualifies(Part(i)) /\ decode_weather(Part(i)) = "") =>
             (i' = i + 1 /\ info'.weather = info.weather)]_vars

C30_Witness ==
    /\ Returned
    /\ Len(parts) = 7
    /\ parts[5] = <<"-", "R", "A">>
    /\ parts[6] = <<"T", "E", "M", "P", "O">>
    /\ parts[7] = <<"B", "R">>
    /\ info.weather = "Light rain, mist"

\* The fixed descriptions of the clear-sky tokens: prefix, description.
ClearSkyDescriptions ==
    {<<(<<"S", "K", "C">>), "Sky clear">>,
     <<(<<"C", "L", "R">>), "Clear below 12,000 feet">>,
     <<(<<"N", "S", "C">>), "No significant cloud">>,
     <<(<<"N", "C", "D">>), "No cloud detected">>}

JoinedLayers ==
    IF cloud_layers = <<>> THEN "No cloud information"
    ELSE join(cloud_layers, ", ")

\* C24: in the cloud stage a token starting with SKC, CLR, NSC or NCD
\* appends its fixed description, is consumed and ends the cloud loop, and
\* no layer is added by any later token; clouds is the layers joined with
\* ", " in token order, or "No cloud information" when there is no layer.
C24_ClearSkyEnds ==
    /\ [][(pc = "clouds" /\ ~cavok_found /\ HasPart) =>
             \A e \in Leading(ClearSkyDescriptions, Part(i)) :
                /\ cloud_layers' = Append(cloud_layers, e[2])
                /\ i' = i + 1
                /\ pc' = "final"]_vars
    /\ [][(pc \in {"final", "remarks", "done"}) =>
             (cloud_layers' = cloud_layers
              /\ info'.clouds = info.clouds)]_vars
    /\ []((pc \in {"final", "remarks", "done"} /\ ~cavok_found
           /\ parts # <<>>) => info.clouds = JoinedLayers)

C24_Witness ==
    /\ Returned
    /\ Len(parts) = 7
    /\ parts[5] = <<"F", "E", "W", "2", "5", "0">>
    /\ parts[6] = <<"S", "K", "C">>
    /\ parts[7] = <<"O", "V", "C", "0", "0", "5", "C", "B">>
    /\ info.clouds = "Few at 25000 feet, Sky clear"

\* A token of one of the handoff shapes.
HandoffShape(t) ==
    \/ \E p \in {<<"A">>, <<"Q">>, <<"T">>, <<"M">>, <<"R", "M", "K">>,
                 <<"N", "O", "S", "I", "G">>} : starts_with(t, p)
    \/ (contains(t, <<"/">>) /\ Len(t) <= 7)

\* A token the cloud loop recognizes by its prefix.
CloudGroup(t) ==
    \E p \in {<<"S", "K", "C">>, <<"C", "L", "R">>, <<"N", "S", "C">>,
               <<"N", "C", "D">>, <<"V", "V">>, <<"F", "E", "W">>,
               <<"S", "C", "T">>, <<"B", "K", "N">>, <<"O", "V", "C">>} :
        starts_with(t, p)

CloudStep == pc = "clouds" /\ ~cavok_found /\ HasPart

\* The loop stops at the token and leaves it to the final section.
HandedOff ==
    i' = i /\ pc' = "final" /\ cloud_layers' = cloud_layers

\* The loop consumes the token and adds no layer.
Skipped ==
    i' = i + 1 /\ pc' = "clouds" /\ cloud_layers' = cloud_layers

\* C25: a token that starts with "A", "Q", "T", "M", "RMK" or "NOSIG", or
\* that contains '/' and is at most 7 long, ends the cloud loop without
\* being consumed; every other unrecognized token is consumed and ignored.
C25_Handoff ==
    [][CloudStep =>
          ((HandoffShape(Part(i)) => HandedOff)
           /\ ((~HandoffShape(Part(i)) /\ ~CloudGroup(Part(i)))
                  => Skipped))]_vars

\* C25, amended: the handoff applies to tokens that have no cloud prefix; a
\* token with the prefix VV or FEW/SCT/BKN/OVC is consumed as a cloud
\* token even when it contains '/' and is at most 7 long.
C25_HandoffNoCloudPrefix ==
    [][CloudStep =>
          (((HandoffShape(Part(i)) /\ ~CloudGroup(Part(i))) => HandedOff)
           /\ ((~HandoffShape(Part(i)) /\ ~CloudGroup(Part(i)))
                  => Skipped)
           /\ ((CloudGroup(Part(i))
                 /\ Leading(ClearSkyDescriptions, Part(i)) = {})
                  => (i' = i + 1 /\ pc' = "clouds")))]_vars

C25_Witness ==
    /\ Returned
    /\ Len(parts) = 7
    /\ parts[5] = <<"V", "V", "/", "/", "/">>
    /\ parts[6] = <<"X", "X">>
    /\ parts[7] = <<"2", "2", "/", "1", "2">>
    /\ info.clouds = "No cloud information"
    /\ info.temperature = "22°C (71°F)"

\* A token of the temperature shape whose parse fails.
FailsTemperature(t) ==
    contains(t, <<"/">>) /\ Len(t) <= 7 /\ ParseTemperature(t) = None

\* The step leaves temperature, dewpoint and the altimeter fields alone.
ReadingsKept ==
    /\ info'.temperature = info.temperature
    /\ info'.dewpoint = info.dewpoint
    /\ info'.altimeter = info.altimeter
    /\ info'.altimeter_inches = info.altimeter_inches
    /\ info'.altimeter_hpa = info.altimeter_hpa
    /\ info'.altimeter_default_unit = info.altimeter_default_unit

\* C26: in the final section a token that contains '/' and is at most 7
\* long but fails the temperature/dewpoint parse is consumed, leaves
\* temperature and dewpoint untouched and is not classified again: it never
\* sets the altimeter and never starts the remarks loop.
C26_NotReclassified ==
    [][(pc = "final" /\ HasPart /\ FailsTemperature(Part(i))) =>
          (i' = i + 1 /\ ReadingsKept /\ pc' = "final")]_vars

\* C26, amended: such a token is consumed and leaves temperature, dewpoint
\* and the altimeter untouched, but it is still classified by the later
\* tests: it starts the remarks loop exactly when it starts with "RMK".
C26_FallsThrough ==
    [][(pc = "final" /\ HasPart /\ FailsTemperature(Part(i))) =>
          (/\ i' = i + 1
           /\ ReadingsKept
           /\ pc' = (IF starts_with(Part(i), <<"R", "M", "K">>)
                     THEN "remarks" ELSE "final"))]_vars

C26_Witness ==
    /\ Returned
    /\ Len(parts) = 6
    /\ parts[5] = <<"R", "M", "K", "/", "1">>
    /\ parts[6] = <<"A", "O", "2">>
    /\ info.remarks = "Automated station"
    /\ info.temperature = ""

\* C27: a token exactly equal to "$" met inside the remarks loop adds the
\* fragment "Maintenance needed on automated station" to the remarks field.
C27_Maintenance ==
    [][(pc = "remarks" /\ HasPart /\ Part(i) = <<"$">>) =>
          info'.remarks =
             join(Append(remark_parts,
                         "Maintenance needed on automated station"),
                  ". ")]_vars

\* C28: a token starting with "RMK" that the final section classifies
\* starts the remarks loop, and decoding ends when that loop ends, at a "$"
\* token or at the end of the tokens: no step after RMK changes
\* temperature, dewpoint or an altimeter field (only remarks is written),
\* and nothing runs after the "$".
C28_RemarksLast ==
    /\ [][(pc = "final" /\ HasPart /\ ParseTemperature(Part(i)) = None
           /\ ~(starts_with(Part(i), <<"A">>) /\ Len(Part(i)) = 5)
           /\ ~(starts_with(Part(i), <<"Q">>) /\ Len(Part(i)) = 5)
           /\ starts_with(Part(i), <<"R", "M", "K">>)) =>
             pc' = "remarks"]_vars
    /\ [][(pc = "remarks") =>
             (/\ ReadingsKept
              /\ [info' EXCEPT !.remarks = info.remarks] = info
              /\ pc' = (IF HasPart /\ Part(i) # <<"$">>
                        THEN "remarks" ELSE "done"))]_vars
    /\ [][pc # "done"]_vars

C28_Witness ==
    /\ Returned
    /\ Len(parts) = 7
    /\ parts[5] = <<"R", "M", "K">>
    /\ parts[6] = <<"$">>
    /\ parts[7] = <<"2", "2", "/", "1", "2">>
    /\ info.temperature = ""
    /\ info.remarks = ""

\* C29: for a text with at least one token the returned weather and clouds
\* are both non-empty: the fixed CAVOK strings with CAVOK, otherwise a
\* description list or "None" and a layer list or "No cloud information";
\* they are empty only for a text with no token.
C29_NonEmpty ==
    Returned =>
       IF parts = <<>> THEN info.weather = "" /\ info.clouds = ""
       ELSE IF cavok_found
       THEN /\ info.weather = "None significant"
            /\ info.clouds = "No clouds below 5,000 feet"
       ELSE /\ info.weather # ""
            /\ info.clouds # ""
            /\ (cloud_layers = <<>>) <=> (info.clouds = "No cloud information")

C29_Witness ==
    /\ Returned
    /\ Len(parts) = 1
    /\ ~cavok_found
    /\ info.weather = "None"
    /\ info.clouds = "No cloud information"

====
